---- MODULE Spec2Model ----
(***************************************************************************)
(* Behavioral telemetry engine of predictive-development-assistant:        *)
(*   KeystrokeTimingAnalyzer   (behavioral/keystroke-analyzer.ts)          *)
(*   BehavioralMetricsEngine   (behavioral/metrics-engine.ts, lines 1-340) *)
(*   BehavioralSequenceTracker (behavioral/metrics-engine.ts, 341-940)     *)
(*                                                                         *)
(* Strings that the code inspects character by character (raw keys and     *)
(* hashed tokens) are sequences of UTF-16 code units.  The buffer and      *)
(* history capacities keep the source's names but are scaled down (the     *)
(* source value is given next to each), since every eviction rule of the   *)
(* code is written against the named capacity, never against its value.    *)
(***************************************************************************)
EXTENDS Integers, Sequences, FiniteSets, TLC

----------------------------------------------------------------------------
(* Generic helpers for JavaScript array operations                         *)

\* Array.prototype.shift(): drop the oldest (first) element
Shift(s) == IF Len(s) = 0 THEN s ELSE SubSeq(s, 2, Len(s))

\* Array.prototype.slice(-n) for n > 0: the last n elements
LastN(s, n) == IF Len(s) <= n THEN s ELSE SubSeq(s, Len(s) - n + 1, Len(s))

Min(a, b) == IF a < b THEN a ELSE b
Max(a, b) == IF a > b THEN a ELSE b

RECURSIVE SumSeq(_)
SumSeq(s) == IF Len(s) = 0 THEN 0 ELSE s[1] + SumSeq(Shift(s))

----------------------------------------------------------------------------
(* Numbers.  The quantities the code computes in floating point are exact  *)
(* rationals [num, den] with den > 0, in lowest terms; only Math.sqrt is   *)
(* rounded (down, to thousandths).                                         *)

Abs(x) == IF x < 0 THEN -x ELSE x

RECURSIVE GCD(_, _)
GCD(x, y) == IF y = 0 THEN x ELSE GCD(y, x % y)

\* num / den in lowest terms, den # 0
Frac(num, den) ==
  LET g == GCD(Abs(num), Abs(den))
      sign == IF den < 0 THEN -1 ELSE 1
  IN  [num |-> sign * (num \div g), den |-> sign * (den \div g)]

Whole(n) == [num |-> n, den |-> 1]
Zero == Whole(0)
One  == Whole(1)

\* the arguments are in lowest terms with positive denominators; common
\* factors are cancelled before multiplying
RAdd(x, y) ==
  LET g == GCD(x.den, y.den)
  IN  Frac(x.num * (y.den \div g) + y.num * (x.den \div g),
           (x.den \div g) * y.den)
RSub(x, y) == RAdd(x, [num |-> -y.num, den |-> y.den])
RMul(x, y) ==
  LET a == Frac(x.num, y.den)
      b == Frac(y.num, x.den)
  IN  Frac(a.num * b.num, a.den * b.den)
\* x / y, y # 0
RDiv(x, y) == RMul(x, Frac(y.den, y.num))
RLess(x, y) ==
  LET g == GCD(x.den, y.den)
  IN  x.num * (y.den \div g) < y.num * (x.den \div g)
RLeq(x, y)  ==
  LET g == GCD(x.den, y.den)
  IN  x.num * (y.den \div g) <= y.num * (x.den \div g)
\* Math.max(x, y)
RMax(x, y) == IF RLess(x, y) THEN y ELSE x

RECURSIVE RSum(_)
RSum(s) == IF Len(s) = 0 THEN Zero ELSE RAdd(s[1], RSum(Shift(s)))

\* the r in lo..hi with r*r <= n < (r+1)*(r+1)
RECURSIVE SqrtBetween(_, _, _)
SqrtBetween(n, lo, hi) ==
  IF lo >= hi THEN lo
  ELSE LET mid == (lo + hi + 1) \div 2
       IN  IF mid * mid <= n THEN SqrtBetween(n, mid, hi)
           ELSE SqrtBetween(n, lo, mid - 1)

\* Math.sqrt(x) for x >= 0, rounded down to a multiple of 1/1000
RSqrt(x) == LET n == (x.num * 1000000) \div x.den
            IN  Frac(SqrtBetween(n, 0, Min(n, 46340)), 1000)

----------------------------------------------------------------------------
(* Privacy hash: KeystrokeTimingAnalyzer.hashKey                           *)

\* An int32 h is split into a signed high limb and an unsigned low limb,
\* h = Hi(h) * 65536 + Lo(h), so that no intermediate leaves 32 bits.
Hi(h) == h \div 65536
Lo(h) == h % 65536

\* ECMAScript ToInt32 of the number H * 65536 + L (L may be any integer)
ToInt32(H, L) ==
  LET carry == L \div 65536
  IN  (((H + carry + 32768) % 65536) - 32768) * 65536 + (L % 65536)

\* hash << 5
ShiftLeft5(h) == ToInt32(Hi(h) * 32, Lo(h) * 32)

\* one loop iteration: hash = ((hash << 5) - hash) + char; hash = hash & hash
HashStep(h, char) ==
  LET s == ShiftLeft5(h)
  IN  ToInt32(Hi(s) - Hi(h), Lo(s) - Lo(h) + char)

RECURSIVE HashLoop(_, _, _)
HashLoop(key, i, h) ==
  IF i > Len(key) THEN h ELSE HashLoop(key, i + 1, HashStep(h, key[i]))

\* decimal digits of n >= 0, most significant first
RECURSIVE Digits(_)
Digits(n) == IF n < 10 THEN <<n>> ELSE Append(Digits(n \div 10), n % 10)

\* digits of Math.abs(h); |-2^31| = 2147483648 is not an int32
AbsDigits(h) ==
  IF h = -2147483647 - 1 THEN <<2, 1, 4, 7, 4, 8, 3, 6, 4, 8>>
  ELSE Digits(IF h < 0 THEN -h ELSE h)

\* "0".."9" are code units 48..57
DigitChars(ds) == [i \in 1..Len(ds) |-> 48 + ds[i]]

\* the literal prefix "key_"
KeyPrefix == <<107, 101, 121, 95>>

\* `key_${Math.abs(hash)}`
hashKey(key) == KeyPrefix \o DigitChars(AbsDigits(HashLoop(key, 1, 0)))

\* String.prototype.includes: k occurs in t as a contiguous substring
Includes(t, k) ==
  \E i \in 0..(Len(t) - Len(k)) :
    \A j \in 1..Len(k) : t[i + j] = k[j]

\* /^key_\d+$/
MatchesKeyDigits(t) ==
  /\ Len(t) > Len(KeyPrefix)
  /\ SubSeq(t, 1, Len(KeyPrefix)) = KeyPrefix
  /\ \A i \in (Len(KeyPrefix) + 1)..Len(t) : t[i] \in 48..57

----------------------------------------------------------------------------
(* Inputs of the keystroke analyzer                                        *)

KeyA         == <<97>>                                          \* "a"
KeyK         == <<107>>                                         \* "k"
KeyBackspace == <<66, 97, 99, 107, 115, 112, 97, 99, 101>>      \* "Backspace"
RawKeys      == {KeyA, KeyK, KeyBackspace}

\* host-supplied timestamps (ms); the code accepts them in any order
KeyTimes == {0, 1500}

NoModifiers == [ctrl |-> FALSE, shift |-> FALSE, alt |-> FALSE]
CtrlShift   == [ctrl |-> TRUE, shift |-> TRUE, alt |-> FALSE]
EventShapes == { [type |-> "keydown", mods |-> NoModifiers],
                 [type |-> "keyup",   mods |-> CtrlShift] }

KeystrokeEvent(k, t, sh) ==
  [key |-> k, timestamp |-> t, type |-> sh.type,
   ctrlKey |-> sh.mods.ctrl, shiftKey |-> sh.mods.shift, altKey |-> sh.mods.alt]

KeystrokeEvents ==
  { KeystrokeEvent(k, t, sh) : k \in RawKeys, t \in KeyTimes, sh \in EventShapes }

----------------------------------------------------------------------------
(* KeystrokeTimingAnalyzer                                                 *)

\* bufferSize: 100 in the source
bufferSize == 3
pauseThreshold == 1000
burstThreshold == 100

\* a freshly constructed analyzer
NewAnalyzer == [keyEvents |-> <<>>, timingBuffer |-> <<>>]

\* mutant: the modifier state is hashed together with the key
hashedEventWithModifiers(event) ==
  [event EXCEPT !.key = hashKey(IF event.ctrlKey THEN <<94>> \o event.key ELSE event.key)]

\* const hashedEvent = { ...event, key: this.hashKey(event.key) }
hashedEvent(event) == [event EXCEPT !.key = hashKey(event.key)]

\* mutant: the overflow check is off by one
pushKeyEventOffByOne(events, ev) ==
  LET pushed == Append(events, ev)
  IN  IF Len(pushed) > bufferSize + 1 THEN Shift(pushed) ELSE pushed

\* this.keyEvents.push(hashedEvent); if (length > bufferSize) shift()
pushKeyEvent(events, ev) ==
  LET pushed == Append(events, ev)
  IN  IF Len(pushed) > bufferSize THEN Shift(pushed) ELSE pushed

\* this.timingBuffer.push(interval); if (length > bufferSize) shift()
pushInterval(buffer, interval) ==
  LET pushed == Append(buffer, interval)
  IN  IF Len(pushed) > bufferSize THEN Shift(pushed) ELSE pushed

\* mutant: the interval is measured from the oldest buffered event
processKeystrokeFromOldest(an, event) ==
  LET events == pushKeyEvent(an.keyEvents, hashedEvent(event))
  IN  [keyEvents    |-> events,
       timingBuffer |->
         IF Len(events) > 1
         THEN pushInterval(an.timingBuffer, event.timestamp - events[1].timestamp)
         ELSE an.timingBuffer]

\* processKeystroke(event) applied to the analyzer an
processKeystroke(an, event) ==
  LET events == pushKeyEvent(an.keyEvents, hashedEvent(event))
  IN  [keyEvents    |-> events,
       timingBuffer |->
         IF Len(events) > 1
         THEN pushInterval(an.timingBuffer,
                           event.timestamp - events[Len(events) - 1].timestamp)
         ELSE an.timingBuffer]

\* clearData()
\* mutant: the intervals survive
clearDataKeepsTimings(an) == [an EXCEPT !.keyEvents = <<>>]

clearData(an) == [keyEvents |-> <<>>, timingBuffer |-> <<>>]

\* toBehavioralActions()
toBehavioralActions(an) ==
  [i \in 1..Len(an.keyEvents) |->
     [type      |-> "keystroke",
      timestamp |-> an.keyEvents[i].timestamp,
      duration  |-> 0,
      metadata  |-> [hashedKey |-> an.keyEvents[i].key,
                     modifiers |-> [ctrl  |-> an.keyEvents[i].ctrlKey,
                                    shift |-> an.keyEvents[i].shiftKey,
                                    alt   |-> an.keyEvents[i].altKey],
                     eventType |-> an.keyEvents[i].type]]]

----------------------------------------------------------------------------
(* BehavioralAction values                                                 *)

\* metadata is an open mapping.  A string-valued key that is absent reads
\* as '': undefined and '' are both falsy, and the code reads these keys
\* only through  x || default  or a truthiness test.
Get(metadata, field) ==
  IF field \in DOMAIN metadata THEN metadata[field] ELSE ""

\* JavaScript  x || d  on strings
OrDefault(x, d) == IF x = "" THEN d ELSE x

\* an empty metadata object
EmptyMetadata == [f \in {} |-> ""]

BehavioralAction(type, timestamp, duration, metadata) ==
  [type |-> type, timestamp |-> timestamp, duration |-> duration,
   metadata |-> metadata]

\* null
Null == [null |-> TRUE]

----------------------------------------------------------------------------
(* BehavioralSequenceTracker                                               *)

\* maxSequences: 100 in the source; the capacity of the trackers whose
\* history is driven past its capacity
maxSequences == 2
\* maxSequences as the source has it; the capacity of the trackers whose
\* recent sequences feed the pattern-change detector
sourceMaxSequences == 100
\* maxContextSwitches: 500 in the source
maxContextSwitches == 2
\* config.bufferSize || 50: the default capacity, 50 in the source
defaultBufferSize == 2
defaultContextSwitchThreshold == 2000
defaultFocusLossThreshold == 30000
\* 0.05
defaultPatternChangeThreshold == Frac(5, 100)
\* this.actionBuffer.slice(-10)
activityWindow == 10

\* constructor(config = {}) with no override
NewTracker(now) ==
  [config |-> [bufferSize             |-> defaultBufferSize,
               contextSwitchThreshold |-> defaultContextSwitchThreshold,
               focusLossThreshold     |-> defaultFocusLossThreshold,
               patternChangeThreshold |-> defaultPatternChangeThreshold],
   actionBuffer        |-> <<>>,
   sequences           |-> <<>>,
   contextSwitches     |-> <<>>,
   currentContext      |-> "",
   lastActivityTime    |-> now,
   focusSegments       |-> <<>>,
   currentFocusSegment |-> Null,
   sequenceIdCounter   |-> 0,
   maxSequences        |-> maxSequences]

\* mutant: only keystrokes leave the context alone
KeepsContextKeystrokeOnly(action) == action.type = "keystroke"

\* the action kinds for which detectContextSwitch returns at once
KeepsContext(action) == action.type \in {"keystroke", "code_edit"}

\* mutant: a missing label is left empty
newContextOfNoDefault(action) ==
  CASE action.type = "file_switch" -> Get(action.metadata, "fileName")
    [] action.type = "context_switch" -> Get(action.metadata, "to")
    [] OTHER -> Get(action.metadata, "context")

\* the switch statement of detectContextSwitch: the candidate label
newContextOf(action) ==
  CASE action.type = "file_switch" ->
         OrDefault(Get(action.metadata, "fileName"), "unknown_file")
    [] action.type = "context_switch" ->
         OrDefault(Get(action.metadata, "to"), "unknown_context")
    [] OTHER ->
         OrDefault(Get(action.metadata, "context"), "default_context")

determineContextSwitchReason(tr, action) ==
  CASE action.type = "file_switch" -> "file_switch"
    [] action.type = "context_switch" ->
         OrDefault(Get(action.metadata, "reason"), "manual")
    [] OTHER ->
         IF action.timestamp - tr.lastActivityTime > tr.config.focusLossThreshold
         THEN "focus_loss" ELSE "manual"

startNewFocusSegment(tr, timestamp, context) ==
  [tr EXCEPT !.currentFocusSegment =
     [startTime |-> timestamp, endTime |-> timestamp, duration |-> 0,
      context |-> context, activityLevel |-> Zero]]

\* mutant: the closed segment keeps the end time of its last update
endCurrentFocusSegmentKeepsEnd(tr, timestamp) ==
  IF tr.currentFocusSegment # Null
  THEN [tr EXCEPT
          !.focusSegments = Append(@, tr.currentFocusSegment),
          !.currentFocusSegment = Null]
  ELSE tr

endCurrentFocusSegment(tr, timestamp) ==
  IF tr.currentFocusSegment # Null
  THEN [tr EXCEPT
          !.focusSegments = Append(@,
             [tr.currentFocusSegment EXCEPT
                !.endTime = timestamp,
                !.duration = timestamp - tr.currentFocusSegment.startTime]),
          !.currentFocusSegment = Null]
  ELSE tr

\* this.contextSwitches.push(contextSwitch); if (length > max) shift()
pushContextSwitch(switches, cs) ==
  LET pushed == Append(switches, cs)
  IN  IF Len(pushed) > maxContextSwitches THEN Shift(pushed) ELSE pushed

\* mutant: the switch starts from the label the action declares
contextSwitchOfDeclaredFrom(tr, action) ==
  [timestamp   |-> action.timestamp,
   fromContext |-> OrDefault(Get(action.metadata, "from"), tr.currentContext),
   toContext   |-> newContextOf(action),
   duration    |-> action.duration,
   reason      |-> determineContextSwitchReason(tr, action)]

\* the ContextSwitch that detectContextSwitch builds for action
contextSwitchOf(tr, action) ==
  [timestamp   |-> action.timestamp,
   fromContext |-> tr.currentContext,
   toContext   |-> newContextOf(action),
   duration    |-> action.duration,
   reason      |-> determineContextSwitchReason(tr, action)]

\* lines 476-498: record the switch, close the segment, open the next
recordContextSwitch(tr, action) ==
  LET newContext == newContextOf(action)
      switched == [tr EXCEPT !.contextSwitches =
                     pushContextSwitch(@, contextSwitchOf(tr, action))]
      ended == endCurrentFocusSegment(switched, action.timestamp)
  IN  startNewFocusSegment([ended EXCEPT !.currentContext = newContext],
                           action.timestamp, newContext)

\* mutant: the first context-bearing action is recorded as a switch from ''
detectContextSwitchNoInit(tr, action) ==
  IF KeepsContext(action) THEN tr
  ELSE IF newContextOf(action) # tr.currentContext
       THEN recordContextSwitch(tr, action)
       ELSE tr

\* mutant: a switch is recorded whether or not the label changed
detectContextSwitchAlways(tr, action) ==
  IF KeepsContext(action) THEN tr
  ELSE IF tr.currentContext = ""
       THEN startNewFocusSegment(
              [tr EXCEPT !.currentContext = newContextOf(action)],
              action.timestamp, newContextOf(action))
       ELSE recordContextSwitch(tr, action)

detectContextSwitch(tr, action) ==
  IF KeepsContext(action) THEN tr
  ELSE
    LET newContext == newContextOf(action)
    IN  IF tr.currentContext = ""
        THEN startNewFocusSegment([tr EXCEPT !.currentContext = newContext],
                                  action.timestamp, newContext)
        ELSE IF newContext # tr.currentContext
        THEN recordContextSwitch(tr, action)
        ELSE tr

calculateActivityLevel(tr) ==
  LET recentActions == LastN(tr.actionBuffer, activityWindow)
      timeSpan == IF Len(recentActions) > 1
                  THEN recentActions[Len(recentActions)].timestamp
                       - recentActions[1].timestamp
                  ELSE 1
  IN  IF timeSpan > 0
      THEN RDiv(Whole(Len(recentActions)), Frac(timeSpan, 1000))
      ELSE Zero

updateFocusTracking(tr, action) ==
  LET now == action.timestamp
  IN  IF tr.currentFocusSegment # Null
      THEN LET segment == tr.currentFocusSegment
               updated == [tr EXCEPT !.currentFocusSegment =
                             [segment EXCEPT
                                !.endTime = now,
                                !.duration = now - segment.startTime,
                                !.activityLevel = calculateActivityLevel(tr)]]
               timeSinceLastActivity == now - tr.lastActivityTime
           IN  IF timeSinceLastActivity > tr.config.focusLossThreshold
               THEN endCurrentFocusSegment(updated, action.timestamp)
               ELSE updated
      ELSE tr

getDefaultFocusPattern(sessionId) ==
  [sessionId           |-> sessionId,
   focusSegments       |-> <<>>,
   totalFocusTime      |-> 0,
   averageFocusSegment |-> Zero,
   interruptionCount   |-> 0]

\* segments shorter than half the average duration
countInterruptions(segments) ==
  IF Len(segments) = 0 THEN 0
  ELSE
    LET durations == [i \in 1..Len(segments) |-> segments[i].duration]
        averageDuration == Frac(SumSeq(durations), Len(segments))
        IsShort(seg) == RLess(Whole(seg.duration), RDiv(averageDuration, Whole(2)))
    IN  Len(SelectSeq(segments, IsShort))

\* analyzeFocusPatterns('all'): the filter keeps every stored segment
analyzeAllFocusPatterns(tr) ==
  LET sessionSegments == tr.focusSegments
      durations == [i \in 1..Len(sessionSegments) |-> sessionSegments[i].duration]
      totalFocusTime == SumSeq(durations)
  IN  IF Len(sessionSegments) = 0 THEN getDefaultFocusPattern("all")
      ELSE [sessionId           |-> "all",
            focusSegments       |-> sessionSegments,
            totalFocusTime      |-> totalFocusTime,
            averageFocusSegment |-> Frac(totalFocusTime, Len(sessionSegments)),
            interruptionCount   |-> countInterruptions(sessionSegments)]

\* createContextSnapshot(): the fields that do not read the wall clock
createContextSnapshot(tr) == [projectContext |-> tr.currentContext]

\* mutant: on overflow the newest sequence is dropped instead of the oldest
pushSequenceDropNewest(tr, sequence) ==
  LET pushed == Append(tr.sequences, sequence)
  IN  IF Len(pushed) > tr.maxSequences
      THEN SubSeq(pushed, 1, Len(pushed) - 1) ELSE pushed

\* this.sequences.push(sequence); if (length > maxSequences) shift()
pushSequence(tr, sequence) ==
  LET pushed == Append(tr.sequences, sequence)
  IN  IF Len(pushed) > tr.maxSequences THEN Shift(pushed) ELSE pushed

completeCurrentSequence(tr) ==
  IF Len(tr.actionBuffer) = 0 THEN tr
  ELSE
    LET id == tr.sequenceIdCounter + 1
        sequence == [id        |-> <<"seq", id>>,
                     actions   |-> tr.actionBuffer,
                     startTime |-> tr.actionBuffer[1].timestamp,
                     endTime   |-> tr.actionBuffer[Len(tr.actionBuffer)].timestamp,
                     context   |-> createContextSnapshot(tr)]
    IN  [tr EXCEPT !.sequenceIdCounter = id,
                   !.sequences = pushSequence(tr, sequence),
                   !.actionBuffer = <<>>]

\* mutant: a sequence is completed only once the buffer exceeds bufferSize
checkSequenceCompletionLate(tr) ==
  IF Len(tr.actionBuffer) > tr.config.bufferSize
  THEN completeCurrentSequence(tr)
  ELSE tr

checkSequenceCompletion(tr) ==
  IF Len(tr.actionBuffer) >= tr.config.bufferSize
  THEN completeCurrentSequence(tr)
  ELSE tr

\* this.actionBuffer.push(action); if (length > config.bufferSize) shift()
pushAction(tr, action) ==
  LET pushed == Append(tr.actionBuffer, action)
  IN  IF Len(pushed) > tr.config.bufferSize THEN Shift(pushed) ELSE pushed

recordAction(tr, action) ==
  LET buffered == [tr EXCEPT !.actionBuffer = pushAction(tr, action),
                             !.lastActivityTime = action.timestamp]
  IN  checkSequenceCompletion(
        updateFocusTracking(detectContextSwitch(buffered, action), action))

\* mutant: the current context survives
trackerClearDataKeepsContext(tr, now) ==
  [tr EXCEPT !.actionBuffer = <<>>,
             !.sequences = <<>>,
             !.contextSwitches = <<>>,
             !.focusSegments = <<>>,
             !.currentFocusSegment = Null,
             !.lastActivityTime = now,
             !.sequenceIdCounter = 0]

\* BehavioralSequenceTracker.clearData()
trackerClearData(tr, now) ==
  [tr EXCEPT !.actionBuffer = <<>>,
             !.sequences = <<>>,
             !.contextSwitches = <<>>,
             !.focusSegments = <<>>,
             !.currentFocusSegment = Null,
             !.currentContext = "",
             !.lastActivityTime = now,
             !.sequenceIdCounter = 0]

\* constructor(config): each field is config.field || default, so a field
\* that is absent or 0 takes the default and any other number is kept
constructTracker(config, now) ==
  LET defaults == NewTracker(now).config
  IN  [NewTracker(now) EXCEPT !.config =
         [f \in DOMAIN defaults |->
            IF f \in DOMAIN config /\ config[f] # 0 THEN config[f] ELSE defaults[f]]]

\* mutant: the fields that newConfig does not name fall back to the defaults
updateConfigReplaces(tr, newConfig) ==
  [tr EXCEPT !.config =
     [f \in DOMAIN tr.config |->
        IF f \in DOMAIN newConfig THEN newConfig[f] ELSE NewTracker(0).config[f]]]

\* updateConfig(newConfig): { ...this.config, ...newConfig }
updateConfig(tr, newConfig) ==
  [tr EXCEPT !.config =
     [f \in DOMAIN tr.config |->
        IF f \in DOMAIN newConfig THEN newConfig[f] ELSE tr.config[f]]]

getCurrentBuffer(tr) == tr.actionBuffer

\* getContextSwitchStatistics().totalSwitches
totalSwitches(tr) == Len(tr.contextSwitches)

(* ---- pattern-change detection ---- *)

\* detectPatternChanges analyses this.sequences.slice(-10)
patternWindow == 10
\* ... and needs at least 5 sequences
minPatternSequences == 5

PatternTypes == <<"typing_rhythm", "context_switching", "focus_duration">>

IsKeystrokeAction(action) == action.type = "keystroke"
IsContextSwitchAction(action) == action.type = "context_switch"

\* the differences of consecutive timestamps
IntervalsOf(actions) ==
  [i \in 1..(Len(actions) - 1) |-> actions[i + 1].timestamp - actions[i].timestamp]

calculateTypingRhythm(sequence) ==
  LET keystrokeActions == SelectSeq(sequence.actions, IsKeystrokeAction)
      intervals == IntervalsOf(keystrokeActions)
  IN  IF Len(keystrokeActions) < 2 THEN Zero
      ELSE Frac(SumSeq(intervals), Len(intervals))

\* switches per minute
calculateContextSwitchingRate(sequence) ==
  LET contextSwitches == SelectSeq(sequence.actions, IsContextSwitchAction)
      duration == sequence.endTime - sequence.startTime
  IN  IF duration > 0
      THEN RMul(Frac(Len(contextSwitches), duration), Whole(60000))
      ELSE Zero

extractPatternMetric(sequence, patternType) ==
  CASE patternType = "typing_rhythm" -> calculateTypingRhythm(sequence)
    [] patternType = "context_switching" -> calculateContextSwitchingRate(sequence)
    [] patternType = "focus_duration" -> Whole(sequence.endTime - sequence.startTime)
    [] OTHER -> Zero

MeanOf(group) == RDiv(RSum(group), Whole(Len(group)))

\* the sample variance, Len(group) > 1
SampleVariance(group) ==
  LET mean == MeanOf(group)
      squares == [i \in 1..Len(group) |->
                    RMul(RSub(group[i], mean), RSub(group[i], mean))]
  IN  RDiv(RSum(squares), Whole(Len(group) - 1))

\* standardError * standardError
StandardErrorSquared(group1, group2) ==
  LET n1 == Len(group1)
      n2 == Len(group2)
      pooledVar ==
        RDiv(RAdd(RMul(Whole(n1 - 1), SampleVariance(group1)),
                  RMul(Whole(n2 - 1), SampleVariance(group2))),
             Whole(n1 + n2 - 2))
  IN  RMul(pooledVar, RAdd(Frac(1, n1), Frac(1, n2)))

\* performTTest(group1, group2): the t statistic, carried as its square so
\* that no square root is rounded; only Math.abs(tStat) is ever read
performTTest(group1, group2) ==
  LET difference == RSub(MeanOf(group1), MeanOf(group2))
      standardErrorSquared == StandardErrorSquared(group1, group2)
  IN  IF RLess(Zero, standardErrorSquared)
      THEN RDiv(RMul(difference, difference), standardErrorSquared)
      ELSE Zero

\* absTStat > cutoff, for cutoff = thousandths / 1000
AbsTStatExceeds(tStatSquared, thousandths) ==
  RLess(Frac(thousandths * thousandths, 1000000), tStatSquared)

\* mutant: the strongest level is reported as 0.001
calculatePValueOffScale(tStatSquared) ==
  IF AbsTStatExceeds(tStatSquared, 2576) THEN Frac(1, 1000)
  ELSE IF AbsTStatExceeds(tStatSquared, 1960) THEN Frac(5, 100)
  ELSE IF AbsTStatExceeds(tStatSquared, 1645) THEN Frac(10, 100)
  ELSE Frac(5, 10)

calculatePValue(tStatSquared) ==
  IF AbsTStatExceeds(tStatSquared, 2576) THEN Frac(1, 100)
  ELSE IF AbsTStatExceeds(tStatSquared, 1960) THEN Frac(5, 100)
  ELSE IF AbsTStatExceeds(tStatSquared, 1645) THEN Frac(10, 100)
  ELSE Frac(5, 10)

\* Math.abs((mean2 - mean1) / mean1) > 0.5, > 0.2; with mean1 = 0 the
\* quotient is Infinity, or NaN (which exceeds nothing) when mean2 = 0 too
determineChangeType(firstHalf, secondHalf) ==
  LET mean1 == MeanOf(firstHalf)
      mean2 == MeanOf(secondHalf)
      change == RSub(mean2, mean1)
      magnitude == [num |-> Abs(change.num), den |-> change.den]
      scale == [num |-> Abs(mean1.num), den |-> mean1.den]
  IN  IF mean1 = Zero
      THEN IF mean2 = Zero THEN "cyclical" ELSE "sudden"
      ELSE IF RLess(RMul(Frac(5, 10), scale), magnitude) THEN "sudden"
      ELSE IF RLess(RMul(Frac(2, 10), scale), magnitude) THEN "gradual"
      ELSE "cyclical"

\* mutant: a significance equal to the threshold is emitted too
detectPatternChangeAtThreshold(tr, patternType, sequences) ==
  LET metrics == [i \in 1..Len(sequences) |->
                    extractPatternMetric(sequences[i], patternType)]
      half == Len(metrics) \div 2
      firstHalf == SubSeq(metrics, 1, half)
      secondHalf == SubSeq(metrics, half + 1, Len(metrics))
      pValue == calculatePValue(performTTest(firstHalf, secondHalf))
  IN  IF Len(metrics) < minPatternSequences THEN Null
      ELSE IF RLeq(pValue, tr.config.patternChangeThreshold)
      THEN [patternType             |-> patternType,
            previousPattern         |-> <<patternType, "_old">>,
            newPattern              |-> <<patternType, "_new">>,
            confidence              |-> RSub(One, pValue),
            changeType              |-> determineChangeType(firstHalf, secondHalf),
            statisticalSignificance |-> pValue]
      ELSE Null

\* detectPatternChange(patternType, sequences): the event, or null; the
\* event's timestamp (new Date()) is left out
detectPatternChange(tr, patternType, sequences) ==
  LET metrics == [i \in 1..Len(sequences) |->
                    extractPatternMetric(sequences[i], patternType)]
      half == Len(metrics) \div 2
      firstHalf == SubSeq(metrics, 1, half)
      secondHalf == SubSeq(metrics, half + 1, Len(metrics))
      pValue == calculatePValue(performTTest(firstHalf, secondHalf))
  IN  IF Len(metrics) < minPatternSequences THEN Null
      ELSE IF RLess(pValue, tr.config.patternChangeThreshold)
      THEN [patternType             |-> patternType,
            previousPattern         |-> <<patternType, "_old">>,
            newPattern              |-> <<patternType, "_new">>,
            confidence              |-> RSub(One, pValue),
            changeType              |-> determineChangeType(firstHalf, secondHalf),
            statisticalSignificance |-> pValue]
      ELSE Null

IsEvent(change) == change # Null

detectPatternChanges(tr) ==
  LET recentSequences == LastN(tr.sequences, patternWindow)
      candidates == [i \in 1..Len(PatternTypes) |->
                       detectPatternChange(tr, PatternTypes[i], recentSequences)]
  IN  IF Len(recentSequences) < minPatternSequences THEN <<>>
      ELSE SelectSeq(candidates, IsEvent)

----------------------------------------------------------------------------
(* KeystrokeTimingAnalyzer.extractTimingPatterns and analyzeStatistics     *)

\* mutant: an interval of exactly the threshold is a pause
IsPauseInclusive(interval) == interval >= pauseThreshold

IsPause(interval) == interval > pauseThreshold

\* words per minute: (keystrokes / 5) / (timeSpan / (1000 * 60))
calculateTypingSpeed(an) ==
  IF Len(an.keyEvents) < 2 THEN Zero
  ELSE LET timeSpan == an.keyEvents[Len(an.keyEvents)].timestamp
                       - an.keyEvents[1].timestamp
       IN  IF timeSpan > 0
           THEN RDiv(Frac(Len(an.keyEvents), 5), Frac(timeSpan, 1000 * 60))
           ELSE Zero

\* mutant: an interval of exactly 2000 ms or 5000 ms falls in the lower bucket
analyzePausePatternsInclusive(an) ==
  LET pauses == SelectSeq(an.timingBuffer, IsPause)
      Short(p)  == p <= 2000
      Medium(p) == p > 2000 /\ p <= 5000
      Long(p)   == p > 5000
  IN  << Len(SelectSeq(pauses, Short)),
         Len(SelectSeq(pauses, Medium)),
         Len(SelectSeq(pauses, Long)) >>

\* [shortPauses, mediumPauses, longPauses]
analyzePausePatterns(an) ==
  LET pauses == SelectSeq(an.timingBuffer, IsPause)
      Short(p)  == p < 2000
      Medium(p) == p >= 2000 /\ p < 5000
      Long(p)   == p >= 5000
  IN  << Len(SelectSeq(pauses, Short)),
         Len(SelectSeq(pauses, Medium)),
         Len(SelectSeq(pauses, Long)) >>

\* mean of the paused intervals
calculateDecisionTime(an) ==
  LET pauses == SelectSeq(an.timingBuffer, IsPause)
  IN  IF Len(pauses) > 0 THEN Frac(SumSeq(pauses), Len(pauses)) ELSE Zero

\* calculateRhythm: the moving average is taken over 5 intervals
rhythmWindowSize == 5
\* detectFatigueIndicators compares rhythm.slice(-10) with rhythm.slice(0, 10)
fatigueRhythmWindow == 10

\* values are rationals
calculateMean(values) == RDiv(RSum(values), Whole(Len(values)))

calculateVariance(values, mean) ==
  calculateMean([i \in 1..Len(values) |->
                   RMul(RSub(values[i], mean), RSub(values[i], mean))])

calculateRhythm(intervals) ==
  [i \in 1..Max(0, Len(intervals) - rhythmWindowSize + 1) |->
     Frac(SumSeq(SubSeq(intervals, i, i + rhythmWindowSize - 1)), rhythmWindowSize)]

IsBurst(interval) == interval < burstThreshold

countPauses(intervals) == Len(SelectSeq(intervals, IsPause))
countBursts(intervals) == Len(SelectSeq(intervals, IsBurst))

getDefaultPattern ==
  [averageInterval |-> Zero,
   variance        |-> Zero,
   rhythm          |-> <<>>,
   pauseCount      |-> 0,
   burstCount      |-> 0]

\* mutant: one interval is enough
extractTimingPatternsOneInterval(an) ==
  IF Len(an.timingBuffer) < 1 THEN getDefaultPattern
  ELSE
    LET intervals == an.timingBuffer
        values == [i \in 1..Len(intervals) |-> Whole(intervals[i])]
        averageInterval == calculateMean(values)
    IN  [averageInterval |-> averageInterval,
         variance        |-> calculateVariance(values, averageInterval),
         rhythm          |-> calculateRhythm(intervals),
         pauseCount      |-> countPauses(intervals),
         burstCount      |-> countBursts(intervals)]

extractTimingPatterns(an) ==
  IF Len(an.timingBuffer) < 2 THEN getDefaultPattern
  ELSE
    LET intervals == an.timingBuffer
        values == [i \in 1..Len(intervals) |-> Whole(intervals[i])]
        averageInterval == calculateMean(values)
    IN  [averageInterval |-> averageInterval,
         variance        |-> calculateVariance(values, averageInterval),
         rhythm          |-> calculateRhythm(intervals),
         pauseCount      |-> countPauses(intervals),
         burstCount      |-> countBursts(intervals)]

\* 1 - stdDev / mean, the coefficient of variation of the rhythm
calculateRhythmConsistency(pattern) ==
  IF Len(pattern.rhythm) < 2 THEN Zero
  ELSE
    LET mean == calculateMean(pattern.rhythm)
        stdDev == RSqrt(calculateVariance(pattern.rhythm, mean))
    IN  IF RLess(Zero, mean) THEN RSub(One, RDiv(stdDev, mean)) ELSE Zero

detectFatigueIndicators(pattern) ==
  LET recentRhythm == LastN(pattern.rhythm, fatigueRhythmWindow)
      earlyRhythm == SubSeq(pattern.rhythm, 1, Min(Len(pattern.rhythm), fatigueRhythmWindow))
  IN  IF Len(recentRhythm) = 0 \/ Len(earlyRhythm) = 0 THEN Zero
      ELSE
        LET recentMean == calculateMean(recentRhythm)
            earlyMean == calculateMean(earlyRhythm)
        IN  IF RLess(earlyMean, recentMean)
            THEN RDiv(RSub(recentMean, earlyMean), earlyMean)
            ELSE Zero

analyzeStatistics(an) ==
  LET pattern == extractTimingPatterns(an)
  IN  [typingSpeed       |-> calculateTypingSpeed(an),
       pausePatterns     |-> analyzePausePatterns(an),
       decisionTime      |-> calculateDecisionTime(an),
       rhythmConsistency |-> calculateRhythmConsistency(pattern),
       fatigueIndicators |-> detectFatigueIndicators(pattern)]

----------------------------------------------------------------------------
(* BehavioralMetricsEngine                                                 *)

\* maxHistorySize: 1000 in the source
maxHistorySize == 4
\* fatigueWindowSize: 10 in the source
fatigueWindowSize == 2
\* 30 * 60 * 1000
sessionTimeoutMs == 30 * 60 * 1000

\* `session_${Date.now()}_${Math.random().toString(36).substr(2, 9)}`
generateSessionId(now, suffix) == <<"session", now, suffix>>

\* constructor(userId)
NewEngine(userId, now, suffix) ==
  [keystrokeAnalyzer |-> NewAnalyzer,
   patternStorage    |-> [userId           |-> userId,
                          patterns         |-> [label \in {} |-> <<>>],
                          currentSession   |-> generateSessionId(now, suffix),
                          sessionStartTime |-> now],
   metricsHistory    |-> <<>>]

getSessionDuration(en, now) == now - en.patternStorage.sessionStartTime

getDefaultFatigueIndicators ==
  [typingSpeedDecline      |-> Zero,
   increasedPauseFrequency |-> Zero,
   rhythmInconsistency     |-> Zero,
   overallFatigueScore     |-> Zero]

TypingSpeedOf(m)  == m.metrics.typingSpeed
PauseTotalOf(m)   == SumSeq(m.metrics.pausePatterns)
DecisionTimeOf(m) == m.metrics.decisionTime

\* s.map(f)
MapSeq(s, f(_)) == [i \in 1..Len(s) |-> f(s[i])]

calculateAverageTypingSpeed(metrics) ==
  IF Len(metrics) = 0 THEN Zero
  ELSE RDiv(RSum(MapSeq(metrics, TypingSpeedOf)), Whole(Len(metrics)))

calculateAveragePauseFrequency(metrics) ==
  IF Len(metrics) = 0 THEN Zero
  ELSE Frac(SumSeq(MapSeq(metrics, PauseTotalOf)), Len(metrics))

\* 1 - stdDev / mean of the decision times; stdDev / mean is taken as
\* sqrt(variance / mean^2)
calculateAverageRhythmConsistency(metrics) ==
  IF Len(metrics) = 0 THEN Zero
  ELSE
    LET decisionTimes == MapSeq(metrics, DecisionTimeOf)
        mean == RDiv(RSum(decisionTimes), Whole(Len(decisionTimes)))
        SquaredDiff(dt) == RMul(RSub(dt, mean), RSub(dt, mean))
        variance == RDiv(RSum(MapSeq(decisionTimes, SquaredDiff)),
                         Whole(Len(decisionTimes)))
    IN  IF RLess(Zero, mean)
        THEN RSub(One, RSqrt(RDiv(variance, RMul(mean, mean))))
        ELSE Zero

\* earlier > 0 ? Math.max(0, (from - to) / earlier) : 0
RelativeChange(from, to, earlier) ==
  IF RLess(Zero, earlier) THEN RMax(Zero, RDiv(RSub(from, to), earlier)) ELSE Zero

\* mutant: the windows are one entry shorter than fatigueWindowSize
detectFatigueShortWindow(en) ==
  LET history == en.metricsHistory
      n == Len(history)
  IN  IF n < (fatigueWindowSize - 1) THEN getDefaultFatigueIndicators
      ELSE
        LET recentMetrics  == LastN(history, (fatigueWindowSize - 1))
            earlierMetrics == SubSeq(history,
                                     Max(0, n - (fatigueWindowSize - 1) * 2) + 1,
                                     n - (fatigueWindowSize - 1))
        IN  IF Len(earlierMetrics) = 0 THEN getDefaultFatigueIndicators
            ELSE
              LET recentAvgSpeed   == calculateAverageTypingSpeed(recentMetrics)
                  earlierAvgSpeed  == calculateAverageTypingSpeed(earlierMetrics)
                  recentAvgPauses  == calculateAveragePauseFrequency(recentMetrics)
                  earlierAvgPauses == calculateAveragePauseFrequency(earlierMetrics)
                  recentRhythmConsistency ==
                    calculateAverageRhythmConsistency(recentMetrics)
                  earlierRhythmConsistency ==
                    calculateAverageRhythmConsistency(earlierMetrics)
                  typingSpeedDecline ==
                    RelativeChange(earlierAvgSpeed, recentAvgSpeed, earlierAvgSpeed)
                  increasedPauseFrequency ==
                    RelativeChange(recentAvgPauses, earlierAvgPauses, earlierAvgPauses)
                  rhythmInconsistency ==
                    RelativeChange(earlierRhythmConsistency, recentRhythmConsistency,
                                   earlierRhythmConsistency)
              IN  [typingSpeedDecline      |-> typingSpeedDecline,
                   increasedPauseFrequency |-> increasedPauseFrequency,
                   rhythmInconsistency     |-> rhythmInconsistency,
                   overallFatigueScore     |->
                     RDiv(RAdd(RAdd(typingSpeedDecline, increasedPauseFrequency),
                               rhythmInconsistency),
                          Whole(3))]

detectFatigue(en) ==
  LET history == en.metricsHistory
      n == Len(history)
  IN  IF n < fatigueWindowSize THEN getDefaultFatigueIndicators
      ELSE
        LET recentMetrics  == LastN(history, fatigueWindowSize)
            earlierMetrics == SubSeq(history,
                                     Max(0, n - fatigueWindowSize * 2) + 1,
                                     n - fatigueWindowSize)
        IN  IF Len(earlierMetrics) = 0 THEN getDefaultFatigueIndicators
            ELSE
              LET recentAvgSpeed   == calculateAverageTypingSpeed(recentMetrics)
                  earlierAvgSpeed  == calculateAverageTypingSpeed(earlierMetrics)
                  recentAvgPauses  == calculateAveragePauseFrequency(recentMetrics)
                  earlierAvgPauses == calculateAveragePauseFrequency(earlierMetrics)
                  recentRhythmConsistency ==
                    calculateAverageRhythmConsistency(recentMetrics)
                  earlierRhythmConsistency ==
                    calculateAverageRhythmConsistency(earlierMetrics)
                  typingSpeedDecline ==
                    RelativeChange(earlierAvgSpeed, recentAvgSpeed, earlierAvgSpeed)
                  increasedPauseFrequency ==
                    RelativeChange(recentAvgPauses, earlierAvgPauses, earlierAvgPauses)
                  rhythmInconsistency ==
                    RelativeChange(earlierRhythmConsistency, recentRhythmConsistency,
                                   earlierRhythmConsistency)
              IN  [typingSpeedDecline      |-> typingSpeedDecline,
                   increasedPauseFrequency |-> increasedPauseFrequency,
                   rhythmInconsistency     |-> rhythmInconsistency,
                   overallFatigueScore     |->
                     RDiv(RAdd(RAdd(typingSpeedDecline, increasedPauseFrequency),
                               rhythmInconsistency),
                          Whole(3))]

calculateFatigueLevel(en) == detectFatigue(en).overallFatigueScore

countContextSwitches(actions) ==
  LET IsContextSwitch(action) == action.type = "context_switch"
  IN  Len(SelectSeq(actions, IsContextSwitch))

\* if (action.metadata.hashedKey): present and not the empty string
HasHashedKey(metadata) ==
  "hashedKey" \in DOMAIN metadata /\ metadata.hashedKey # <<>>

\* action.metadata.modifiers?.ctrl || false
ModifierOf(metadata, name) ==
  IF "modifiers" \in DOMAIN metadata THEN metadata.modifiers[name] ELSE FALSE

\* mutant: a keystroke action without the key token is ingested too
routeKeystrokeIngestsKeyless(an, action) ==
  processKeystroke(an,
    [key       |-> IF HasHashedKey(action.metadata)
                   THEN action.metadata.hashedKey ELSE <<>>,
     timestamp |-> action.timestamp,
     type      |-> OrDefault(Get(action.metadata, "eventType"), "keydown"),
     ctrlKey   |-> ModifierOf(action.metadata, "ctrl"),
     shiftKey  |-> ModifierOf(action.metadata, "shift"),
     altKey    |-> ModifierOf(action.metadata, "alt")])

\* the forEach body of calculateMetrics applied to one keystroke action
routeKeystroke(an, action) ==
  IF HasHashedKey(action.metadata)
  THEN processKeystroke(an,
         [key       |-> action.metadata.hashedKey,
          timestamp |-> action.timestamp,
          type      |-> OrDefault(Get(action.metadata, "eventType"), "keydown"),
          ctrlKey   |-> ModifierOf(action.metadata, "ctrl"),
          shiftKey  |-> ModifierOf(action.metadata, "shift"),
          altKey    |-> ModifierOf(action.metadata, "alt")])
  ELSE an

RECURSIVE routeKeystrokes(_, _)
routeKeystrokes(an, keystrokeActions) ==
  IF Len(keystrokeActions) = 0 THEN an
  ELSE routeKeystrokes(routeKeystroke(an, keystrokeActions[1]),
                       Shift(keystrokeActions))

\* startNewSession()
startNewSession(en, now, suffix) ==
  [en EXCEPT !.patternStorage.currentSession = generateSessionId(now, suffix),
             !.patternStorage.sessionStartTime = now,
             !.keystrokeAnalyzer = clearData(@)]

\* the TemporalMetrics that storeMetrics builds
temporalMetricsOf(en, metrics, now) ==
  [timestamp |-> now,
   metrics   |-> metrics,
   sessionId |-> en.patternStorage.currentSession,
   duration  |-> getSessionDuration(en, now)]

\* mutant: on overflow the newest entry is dropped instead of the oldest
pushMetricsDropNewest(history, entry) ==
  LET pushed == Append(history, entry)
  IN  IF Len(pushed) > maxHistorySize THEN SubSeq(pushed, 1, Len(pushed) - 1)
      ELSE pushed

\* this.metricsHistory.push(temporalMetrics); if (length > max) shift()
pushMetrics(history, entry) ==
  LET pushed == Append(history, entry)
  IN  IF Len(pushed) > maxHistorySize THEN Shift(pushed) ELSE pushed

\* mutant: the session timeout is never checked
storeMetricsNoTimeout(en, metrics, now, suffix) ==
  [en EXCEPT !.metricsHistory = pushMetrics(@, temporalMetricsOf(en, metrics, now))]

storeMetrics(en, metrics, now, suffix) ==
  LET stored == [en EXCEPT !.metricsHistory =
                   pushMetrics(@, temporalMetricsOf(en, metrics, now))]
  IN  IF getSessionDuration(stored, now) > sessionTimeoutMs
      THEN startNewSession(stored, now, suffix)
      ELSE stored

\* mutant: the fatigue level is computed after the call's entry is stored
metricsOfAfterStore(en, actions) ==
  LET IsKeystroke(action) == action.type = "keystroke"
      routed == routeKeystrokes(en.keystrokeAnalyzer, SelectSeq(actions, IsKeystroke))
      keystrokeMetrics == analyzeStatistics(routed)
      metrics == [typingSpeed     |-> keystrokeMetrics.typingSpeed,
                  pausePatterns   |-> keystrokeMetrics.pausePatterns,
                  decisionTime    |-> keystrokeMetrics.decisionTime,
                  contextSwitches |-> countContextSwitches(actions),
                  fatigueLevel    |-> Zero]
      stored == [en EXCEPT !.metricsHistory =
                   pushMetrics(@, temporalMetricsOf(en, metrics, 0))]
  IN  [metrics EXCEPT !.fatigueLevel = calculateFatigueLevel(stored)]

\* the BehavioralMetrics returned by calculateMetrics(actions)
metricsOf(en, actions) ==
  LET IsKeystroke(action) == action.type = "keystroke"
      routed == routeKeystrokes(en.keystrokeAnalyzer, SelectSeq(actions, IsKeystroke))
      keystrokeMetrics == analyzeStatistics(routed)
  IN  [typingSpeed     |-> keystrokeMetrics.typingSpeed,
       pausePatterns   |-> keystrokeMetrics.pausePatterns,
       decisionTime    |-> keystrokeMetrics.decisionTime,
       contextSwitches |-> countContextSwitches(actions),
       fatigueLevel    |-> calculateFatigueLevel(en)]

\* the engine after calculateMetrics(actions)
calculateMetrics(en, actions, now, suffix) ==
  LET IsKeystroke(action) == action.type = "keystroke"
      routed == [en EXCEPT !.keystrokeAnalyzer =
                   routeKeystrokes(@, SelectSeq(actions, IsKeystroke))]
  IN  storeMetrics(routed, metricsOf(en, actions), now, suffix)

getMetricsHistory(en) == en.metricsHistory

\* mutant: the pattern index survives
clearAllDataKeepsPatterns(en, now, suffix) ==
  startNewSession(
    [en EXCEPT !.metricsHistory = <<>>,
               !.keystrokeAnalyzer = clearData(@)],
    now, suffix)

\* clearAllData()
clearAllData(en, now, suffix) ==
  startNewSession(
    [en EXCEPT !.metricsHistory = <<>>,
               !.patternStorage.patterns = [label \in {} |-> <<>>],
               !.keystrokeAnalyzer = clearData(@)],
    now, suffix)

(* ---- pattern index and session statistics ---- *)

\* the first and the second half of the entries, split at floor(length / 2)
firstHalfOf(sessionMetrics) == SubSeq(sessionMetrics, 1, Len(sessionMetrics) \div 2)
secondHalfOf(sessionMetrics) ==
  SubSeq(sessionMetrics, Len(sessionMetrics) \div 2 + 1, Len(sessionMetrics))

\* mutant: the decline is taken relative to the second half
calculateFatigueProgressionBySecondHalf(sessionMetrics) ==
  IF Len(sessionMetrics) < 2 THEN Zero
  ELSE
    LET firstHalfAvgSpeed == calculateAverageTypingSpeed(firstHalfOf(sessionMetrics))
        secondHalfAvgSpeed == calculateAverageTypingSpeed(secondHalfOf(sessionMetrics))
    IN  IF RLess(Zero, secondHalfAvgSpeed)
        THEN RMax(Zero, RDiv(RSub(firstHalfAvgSpeed, secondHalfAvgSpeed),
                             secondHalfAvgSpeed))
        ELSE Zero

calculateFatigueProgression(sessionMetrics) ==
  IF Len(sessionMetrics) < 2 THEN Zero
  ELSE
    LET firstHalfAvgSpeed == calculateAverageTypingSpeed(firstHalfOf(sessionMetrics))
        secondHalfAvgSpeed == calculateAverageTypingSpeed(secondHalfOf(sessionMetrics))
    IN  IF RLess(Zero, firstHalfAvgSpeed)
        THEN RMax(Zero, RDiv(RSub(firstHalfAvgSpeed, secondHalfAvgSpeed),
                             firstHalfAvgSpeed))
        ELSE Zero

NoPatterns == [label \in {} |-> <<>>]

\* this.patternStorage.patterns.get(pattern) || []
patternHistoryOf(en, pattern) ==
  IF pattern \in DOMAIN en.patternStorage.patterns
  THEN en.patternStorage.patterns[pattern]
  ELSE <<>>

\* mutant: a second call with the same label replaces the stored entry
storePatternOverwrites(en, pattern, metrics, now) ==
  [en EXCEPT !.patternStorage.patterns =
     [label \in DOMAIN @ \cup {pattern} |->
        IF label = pattern THEN << temporalMetricsOf(en, metrics, now) >> ELSE @[label]]]

\* storePattern(pattern, metrics)
storePattern(en, pattern, metrics, now) ==
  LET pushed == Append(patternHistoryOf(en, pattern), temporalMetricsOf(en, metrics, now))
      patternHistory == IF Len(pushed) > maxHistorySize THEN Shift(pushed) ELSE pushed
  IN  [en EXCEPT !.patternStorage.patterns =
         [label \in DOMAIN @ \cup {pattern} |->
            IF label = pattern THEN patternHistory ELSE @[label]]]

getPatternsByTimeRange(en, pattern, startTime, endTime) ==
  LET InRange(metrics) == metrics.timestamp >= startTime /\ metrics.timestamp <= endTime
  IN  SelectSeq(patternHistoryOf(en, pattern), InRange)

\* the entries of a history that belong to the current session
sessionMetricsOf(en, history) ==
  LET InSession(metrics) == metrics.sessionId = en.patternStorage.currentSession
  IN  SelectSeq(history, InSession)

getCurrentSessionPatterns(en) ==
  LET patterns == en.patternStorage.patterns
      present == {label \in DOMAIN patterns : Len(sessionMetricsOf(en, patterns[label])) > 0}
  IN  [label \in present |-> sessionMetricsOf(en, patterns[label])]

\* getSessionStatistics().metricsCount
metricsCount(en) == Len(sessionMetricsOf(en, en.metricsHistory))

\* getSessionStatistics()
getSessionStatistics(en, now) ==
  LET sessionMetrics == sessionMetricsOf(en, en.metricsHistory)
      ContextSwitchesOf(m) == m.metrics.contextSwitches
  IN  [sessionId            |-> en.patternStorage.currentSession,
       duration             |-> getSessionDuration(en, now),
       metricsCount         |-> Len(sessionMetrics),
       averageTypingSpeed   |-> calculateAverageTypingSpeed(sessionMetrics),
       totalContextSwitches |-> SumSeq(MapSeq(sessionMetrics, ContextSwitchesOf)),
       fatigueProgression   |-> calculateFatigueProgression(sessionMetrics)]

\* what the call log keeps of calculateMetrics(actions)
loggedCall(en, actions) ==
  [sessionId |-> en.patternStorage.currentSession,
   switches  |-> Cardinality({ i \in 1..Len(actions) : actions[i].type = "context_switch" })]

----------------------------------------------------------------------------
(* Inputs of the sequence tracker                                          *)

\* gaps (ms) between the timestamps of consecutive recorded actions
TrackerGaps == {100}

\* the token of "a", as the host would carry it in keystroke metadata
TokenA == hashKey(KeyA)

TrackerActions(t) ==
  { BehavioralAction("keystroke", t, 0, [hashedKey |-> "key_0"]),
    BehavioralAction("file_switch", t, 100, [fileName |-> "a.ts"]),
    BehavioralAction("file_switch", t, 100, EmptyMetadata),
    BehavioralAction("context_switch", t, 100, [from |-> "a.ts", to |-> "b.ts"]),
    BehavioralAction("mouse_click", t, 0, EmptyMetadata) }

\* number of recordAction calls explored
MaxRecorded == 4

\* partial configurations handed to updateConfig
ConfigUpdates ==
  { [bufferSize |-> 1], [bufferSize |-> defaultBufferSize + 1] }

EstablishesContext(action) == action.type \in {"file_switch", "context_switch"}

----------------------------------------------------------------------------
(* Inputs of the metrics engine                                            *)

Keystroke(t) ==
  BehavioralAction("keystroke", t, 0,
    [hashedKey |-> TokenA, eventType |-> "keydown",
     modifiers |-> NoModifiers])

\* the action lists handed to calculateMetrics
EngineBatches ==
  { <<>>,
    << Keystroke(0),
       BehavioralAction("context_switch", 700, 100, [from |-> "a.ts", to |-> "b.ts"]),
       Keystroke(1500) >>,
    << Keystroke(3000), Keystroke(4500) >> }

\* values of the random part of a session id
RandomSuffixes == {"k3x9q2m1z"}

\* readings of the wall clock (Date.now()): the start, and one later than the
\* session timeout after it
WallClockReadings == {0, sessionTimeoutMs + 60 * 1000}
\* number of startNewSession and clearAllData calls explored
MaxSessions == 1
\* number of calculateMetrics calls explored
MaxCalls == 5

----------------------------------------------------------------------------
(* State                                                                   *)

VARIABLES
  analyzer,      \* a KeystrokeTimingAnalyzer driven directly by the host
  tokensOf,      \* history: raw key -> set of tokens ever stored for it
  sinceClear,    \* history: processKeystroke calls since construction or the
                 \* last clearData, counted up to bufferSize + 1
  queried,       \* history: number of query operations the host has called
  tracker,       \* a BehavioralSequenceTracker
  hostClock,     \* timestamp of the last action the host handed to the tracker
  recorded,      \* history: number of recordAction calls
  switchLog,     \* history: every ContextSwitch created since the last clearData
  chain,         \* history: the file-switch / context-switch actions since the
                 \* last clearData: how many, the last candidate label, and
                 \* whether each label differed from the one before with no
                 \* other context-bearing action recorded
  engine,        \* a BehavioralMetricsEngine
  wallClock,     \* Date.now()
  engineCalls,   \* history: number of calculateMetrics calls
  sessions,      \* history: number of startNewSession and clearAllData calls
  metricsLog,    \* history: every TemporalMetrics appended since construction
                 \* or the last clearAllData
  storeLog,      \* history: every storePattern call since construction or the
                 \* last clearAllData: its label, its metrics, and the wall
                 \* clock and the current session id at the call
  callLog        \* history: every calculateMetrics call since construction or
                 \* the last clearAllData: the session id current when it
                 \* was made and the number of context-switch actions passed

analyzerVars == <<analyzer, tokensOf, sinceClear, queried>>
trackerVars  == <<tracker, hostClock, recorded, switchLog, chain>>
engineVars   == <<engine, wallClock, engineCalls, sessions, metricsLog, storeLog, callLog>>
vars == <<analyzer, tokensOf, sinceClear, queried, tracker, hostClock, recorded, switchLog, chain,
          engine, wallClock, engineCalls, sessions, metricsLog, storeLog, callLog>>

FreshChain == [count |-> 0, last |-> "", differing |-> TRUE]

Init ==
  /\ analyzer = NewAnalyzer
  /\ tokensOf = [k \in RawKeys |-> {}]
  /\ sinceClear = 0
  /\ queried = 0
  /\ hostClock = 0
  /\ tracker = NewTracker(0)
  /\ recorded = 0
  /\ switchLog = <<>>
  /\ chain = FreshChain
  /\ wallClock = 0
  /\ \E suffix \in RandomSuffixes : engine = NewEngine("user", 0, suffix)
  /\ engineCalls = 0
  /\ sessions = 0
  /\ metricsLog = <<>>
  /\ storeLog = <<>>
  /\ callLog = <<>>

(* ---- keystroke analyzer ---- *)

\* the step taken by processKeystroke(event)
ProcessKeystrokeStep(event) ==
  /\ analyzer' = processKeystroke(analyzer, event)
  /\ tokensOf' =
       [tokensOf EXCEPT
          ![event.key] = @ \cup {analyzer'.keyEvents[Len(analyzer'.keyEvents)].key}]
  /\ sinceClear' = Min(sinceClear + 1, bufferSize + 1)
  /\ UNCHANGED queried
  /\ UNCHANGED <<trackerVars, engineVars>>

ProcessKeystroke == \E event \in KeystrokeEvents : ProcessKeystrokeStep(event)

ClearData ==
  /\ analyzer' = clearData(analyzer)
  /\ sinceClear' = 0
  /\ UNCHANGED queried
  /\ UNCHANGED tokensOf
  /\ UNCHANGED <<trackerVars, engineVars>>

Next == ProcessKeystroke \/ ClearData

Spec == Init /\ [][Next]_vars

(* ---- keystroke analyzer, timing at the thresholds ---- *)

\* timestamps whose differences are 0, 100, 1000, 1100, 2000, 3000, 3100,
\* 5000, 6000 and 6100 ms and their negatives: the pause and burst
\* thresholds and the bucket boundaries of the pause histogram are met
\* exactly, undercut and exceeded
TimingTimes == {0, 100, 1100, 3100, 6100}

TimingEvents ==
  { KeystrokeEvent(KeyA, t, [type |-> "keydown", mods |-> NoModifiers]) : t \in TimingTimes }

TimedKeystroke == \E event \in TimingEvents : ProcessKeystrokeStep(event)

NextTiming == TimedKeystroke \/ ClearData

SpecTiming == Init /\ [][NextTiming]_vars

(* ---- sequence tracker ---- *)

\* the step taken by recordAction(action)
RecordActionStep(action) ==
  /\ tracker' = recordAction(tracker, action)
  /\ hostClock' = action.timestamp
  /\ recorded' = recorded + 1
  /\ switchLog' =
       IF ~KeepsContext(action) /\ tracker.currentContext # ""
          /\ newContextOf(action) # tracker.currentContext
       THEN Append(switchLog,
                   contextSwitchOf([tracker EXCEPT !.lastActivityTime = action.timestamp],
                                   action))
       ELSE switchLog
  /\ chain' =
       IF EstablishesContext(action)
       THEN [count     |-> chain.count + 1,
             last      |-> newContextOf(action),
             differing |-> chain.differing
                           /\ (chain.count = 0 \/ newContextOf(action) # chain.last)]
       ELSE IF KeepsContext(action) THEN chain
       ELSE [chain EXCEPT !.differing = FALSE]

RecordAction ==
  /\ recorded < MaxRecorded
  /\ \E gap \in TrackerGaps : \E action \in TrackerActions(hostClock + gap) :
       RecordActionStep(action)
  /\ UNCHANGED <<analyzerVars, engineVars>>

UpdateConfig ==
  /\ \E newConfig \in ConfigUpdates : tracker' = updateConfig(tracker, newConfig)
  /\ UNCHANGED <<hostClock, recorded, switchLog, chain>>
  /\ UNCHANGED <<analyzerVars, engineVars>>

TrackerClearData ==
  /\ tracker' = trackerClearData(tracker, hostClock)
  /\ switchLog' = <<>>
  /\ chain' = FreshChain
  /\ UNCHANGED <<hostClock, recorded>>
  /\ UNCHANGED <<analyzerVars, engineVars>>

NextTracker == RecordAction \/ UpdateConfig \/ TrackerClearData

SpecTracker == Init /\ [][NextTracker]_vars

(* ---- sequence tracker after idle periods ---- *)

\* gaps between consecutive actions: one short, one longer than the
\* focus-loss threshold
FocusGaps == {100, defaultFocusLossThreshold + 10000}

FocusActions(t) ==
  { BehavioralAction("keystroke", t, 0, [hashedKey |-> "key_0"]),
    BehavioralAction("code_edit", t, 0, EmptyMetadata),
    BehavioralAction("file_switch", t, 100, [fileName |-> "a.ts"]),
    BehavioralAction("context_switch", t, 100,
                     [from |-> "a.ts", to |-> "b.ts", reason |-> "application_switch"]),
    BehavioralAction("mouse_click", t, 0, EmptyMetadata) }

RecordFocusAction ==
  /\ recorded < MaxRecorded
  /\ \E gap \in FocusGaps : \E action \in FocusActions(hostClock + gap) :
       RecordActionStep(action)
  /\ UNCHANGED <<analyzerVars, engineVars>>

NextFocus == RecordFocusAction \/ TrackerClearData

SpecFocus == Init /\ [][NextFocus]_vars

(* ---- sequence tracker on partial metadata and arbitrary timestamps ---- *)

\* timestamps handed over in any order, one of them negative
RobustTimes == {-1, 100}

\* actions of every kind of handling with their label missing, next to two
\* that carry it
RobustActions(t) ==
  { BehavioralAction("keystroke", t, 0, EmptyMetadata),
    BehavioralAction("file_switch", t, 100, EmptyMetadata),
    BehavioralAction("context_switch", t, 100, EmptyMetadata),
    BehavioralAction("context_switch", t, 100, [to |-> "b.ts"]),
    BehavioralAction("mouse_click", t, 0, EmptyMetadata),
    BehavioralAction("debug_action", t, 0, [context |-> "terminal"]) }

\* number of recordAction calls explored with these actions
MaxRobustRecorded == 3

RecordRobustAction ==
  /\ recorded < MaxRobustRecorded
  /\ \E t \in RobustTimes : \E action \in RobustActions(t) :
       RecordActionStep(action)
  /\ UNCHANGED <<analyzerVars, engineVars>>

NextRobust == RecordRobustAction

SpecRobust == Init /\ [][NextRobust]_vars

(* ---- sequence tracker configuration ---- *)

\* partial configurations handed to the constructor
ConstructorOverrides ==
  { [f \in {} |-> 0],
    [bufferSize |-> 3, contextSwitchThreshold |-> 1000],
    [bufferSize |-> 0],
    [bufferSize |-> -1] }

\* partial configurations handed to updateConfig
PartialConfigs ==
  { [bufferSize |-> 1],
    [contextSwitchThreshold |-> 500, focusLossThreshold |-> 60000],
    [patternChangeThreshold |-> Frac(1, 100)],
    [bufferSize |-> 0] }

ConfigActions(t) ==
  { BehavioralAction("keystroke", t, 0, [hashedKey |-> "key_0"]),
    BehavioralAction("file_switch", t, 100, [fileName |-> "a.ts"]),
    BehavioralAction("file_switch", t, 100, [fileName |-> "b.ts"]) }

\* number of recordAction calls explored between configuration updates
MaxConfigRecorded == 2

InitConfig ==
  /\ analyzer = NewAnalyzer
  /\ tokensOf = [k \in RawKeys |-> {}]
  /\ sinceClear = 0
  /\ queried = 0
  /\ hostClock = 0
  /\ \E config \in ConstructorOverrides : tracker = constructTracker(config, 0)
  /\ recorded = 0
  /\ switchLog = <<>>
  /\ chain = FreshChain
  /\ wallClock = 0
  /\ \E suffix \in RandomSuffixes : engine = NewEngine("user", 0, suffix)
  /\ engineCalls = 0
  /\ sessions = 0
  /\ metricsLog = <<>>
  /\ storeLog = <<>>
  /\ callLog = <<>>

RecordConfigAction ==
  /\ recorded < MaxConfigRecorded
  /\ \E action \in ConfigActions(hostClock + 100) : RecordActionStep(action)
  /\ UNCHANGED <<analyzerVars, engineVars>>

UpdatePartialConfig ==
  /\ \E newConfig \in PartialConfigs : tracker' = updateConfig(tracker, newConfig)
  /\ UNCHANGED <<hostClock, recorded, switchLog, chain>>
  /\ UNCHANGED <<analyzerVars, engineVars>>

NextConfig == RecordConfigAction \/ UpdatePartialConfig

SpecConfig == InitConfig /\ [][NextConfig]_vars

(* ---- sequence tracker under a fixed buffer size ---- *)

\* new BehavioralSequenceTracker({ bufferSize }) for these sizes
SequenceBufferSizes == {1, 2, 3}

SequenceActions(t) ==
  { BehavioralAction("keystroke", t, 0, [hashedKey |-> "key_0"]),
    BehavioralAction("file_switch", t, 100, [fileName |-> "a.ts"]),
    BehavioralAction("code_edit", t, 0, EmptyMetadata) }

\* number of recordAction calls explored per tracker
MaxSequenceRecorded == 5

InitSequences ==
  /\ analyzer = NewAnalyzer
  /\ tokensOf = [k \in RawKeys |-> {}]
  /\ sinceClear = 0
  /\ queried = 0
  /\ hostClock = 0
  /\ \E size \in SequenceBufferSizes :
       tracker = constructTracker([bufferSize |-> size], 0)
  /\ recorded = 0
  /\ switchLog = <<>>
  /\ chain = FreshChain
  /\ wallClock = 0
  /\ \E suffix \in RandomSuffixes : engine = NewEngine("user", 0, suffix)
  /\ engineCalls = 0
  /\ sessions = 0
  /\ metricsLog = <<>>
  /\ storeLog = <<>>
  /\ callLog = <<>>

RecordSequenceAction ==
  /\ recorded < MaxSequenceRecorded
  /\ \E action \in SequenceActions(hostClock + 100) : RecordActionStep(action)
  /\ UNCHANGED <<analyzerVars, engineVars>>

NextSequences == RecordSequenceAction

SpecSequences == InitSequences /\ [][NextSequences]_vars

(* ---- pattern-change detection over completed sequences ---- *)

\* new BehavioralSequenceTracker({ bufferSize: 2 })
PatternTrackerConfig == [bufferSize |-> 2]

\* each window opens with a keystroke and closes with a keystroke after one
\* of three gaps or with an explicit context switch
WindowOpeners(t) ==
  { BehavioralAction("keystroke", t + 100, 0, [hashedKey |-> "key_0"]) }

WindowClosers(t) ==
  { BehavioralAction("keystroke", t + 100, 0, [hashedKey |-> "key_0"]),
    BehavioralAction("keystroke", t + 120, 0, [hashedKey |-> "key_0"]),
    BehavioralAction("keystroke", t + 1000, 0, [hashedKey |-> "key_0"]),
    BehavioralAction("context_switch", t + 100, 100, [from |-> "a.ts", to |-> "b.ts"]) }

\* significance thresholds handed to updateConfig
ThresholdUpdates ==
  { [patternChangeThreshold |-> Frac(20, 100)],
    [patternChangeThreshold |-> Frac(60, 100)] }

\* number of sequences completed
MaxPatternSequences == 5

InitPatterns ==
  /\ analyzer = NewAnalyzer
  /\ tokensOf = [k \in RawKeys |-> {}]
  /\ sinceClear = 0
  /\ queried = 0
  /\ hostClock = 0
  /\ tracker = updateConfig([NewTracker(0) EXCEPT !.maxSequences = sourceMaxSequences],
                            PatternTrackerConfig)
  /\ recorded = 0
  /\ switchLog = <<>>
  /\ chain = FreshChain
  /\ wallClock = 0
  /\ \E suffix \in RandomSuffixes : engine = NewEngine("user", 0, suffix)
  /\ engineCalls = 0
  /\ sessions = 0
  /\ metricsLog = <<>>
  /\ storeLog = <<>>
  /\ callLog = <<>>

RecordPatternAction ==
  /\ tracker.sequenceIdCounter < MaxPatternSequences
  /\ \E action \in (IF tracker.actionBuffer = <<>>
                    THEN WindowOpeners(hostClock) ELSE WindowClosers(hostClock)) :
       RecordActionStep(action)
  /\ UNCHANGED <<analyzerVars, engineVars>>

UpdatePatternThreshold ==
  /\ \E newConfig \in ThresholdUpdates : tracker' = updateConfig(tracker, newConfig)
  /\ UNCHANGED <<hostClock, recorded, switchLog, chain>>
  /\ UNCHANGED <<analyzerVars, engineVars>>

NextPatterns == RecordPatternAction \/ UpdatePatternThreshold

SpecPatterns == InitPatterns /\ [][NextPatterns]_vars

(* ---- metrics engine ---- *)

CalculateMetrics ==
  /\ engineCalls < MaxCalls
  /\ \E actions \in EngineBatches : \E suffix \in RandomSuffixes :
       /\ engine' = calculateMetrics(engine, actions, wallClock, suffix)
       /\ metricsLog' =
            Append(metricsLog,
                   temporalMetricsOf(engine, metricsOf(engine, actions), wallClock))
       /\ callLog' = Append(callLog, loggedCall(engine, actions))
  /\ engineCalls' = engineCalls + 1
  /\ UNCHANGED <<wallClock, sessions, storeLog, analyzerVars, trackerVars>>

StartNewSession ==
  /\ sessions < MaxSessions
  /\ \E suffix \in RandomSuffixes :
       engine' = startNewSession(engine, wallClock, suffix)
  /\ sessions' = sessions + 1
  /\ UNCHANGED <<wallClock, engineCalls, metricsLog, storeLog, callLog, analyzerVars, trackerVars>>

ClearAllData ==
  /\ sessions < MaxSessions
  /\ \E suffix \in RandomSuffixes :
       engine' = clearAllData(engine, wallClock, suffix)
  /\ sessions' = sessions + 1
  /\ metricsLog' = <<>>
  /\ storeLog' = <<>>
  /\ callLog' = <<>>
  /\ UNCHANGED <<wallClock, engineCalls, analyzerVars, trackerVars>>

Tick ==
  /\ \E now \in WallClockReadings :
       /\ wallClock < now
       /\ wallClock' = now
  /\ UNCHANGED <<engine, engineCalls, sessions, metricsLog, storeLog, callLog, analyzerVars, trackerVars>>

NextEngine == CalculateMetrics \/ StartNewSession \/ ClearAllData \/ Tick

SpecEngine == Init /\ [][NextEngine]_vars

(* ---- metrics engine: sessions and the pattern index ---- *)

\* values of the random part of a session id; two draws may coincide
SessionSuffixes == {"k3x9q2m1z", "a1b2c3d4e"}

SessionBatches == { <<>>, << Keystroke(0), Keystroke(1500) >> }

PatternLabels == {"coding", "debugging"}

\* a BehavioralMetrics handed to storePattern
SampleMetrics ==
  [typingSpeed     |-> Whole(40),
   pausePatterns   |-> <<1, 0, 0>>,
   decisionTime    |-> Whole(1500),
   contextSwitches |-> 0,
   fatigueLevel    |-> Zero]

\* number of entries in the pattern index
StoredCount(en) ==
  LET patterns == en.patternStorage.patterns
      Lengths == [label \in DOMAIN patterns |-> Len(patterns[label])]
      RECURSIVE Total(_)
      Total(labels) ==
        IF labels = {} THEN 0
        ELSE LET label == CHOOSE l \in labels : TRUE
             IN  Lengths[label] + Total(labels \ {label})
  IN  Total(DOMAIN patterns)

\* number of calculateMetrics calls explored with the pattern index
MaxSessionCalls == 2
\* number of storePattern calls explored between two clearAllData calls
MaxStored == 1
\* number of startNewSession and clearAllData calls explored with the index
MaxSessionStarts == 1

SessionCalculateMetrics ==
  /\ engineCalls < MaxSessionCalls
  /\ \E actions \in SessionBatches : \E suffix \in SessionSuffixes :
       /\ engine' = calculateMetrics(engine, actions, wallClock, suffix)
       /\ metricsLog' =
            Append(metricsLog,
                   temporalMetricsOf(engine, metricsOf(engine, actions), wallClock))
       /\ callLog' = Append(callLog, loggedCall(engine, actions))
  /\ engineCalls' = engineCalls + 1
  /\ UNCHANGED <<wallClock, sessions, storeLog, analyzerVars, trackerVars>>

\* the step taken by storePattern(pattern, metrics)
StorePatternStep(pattern, metrics) ==
  /\ engine' = storePattern(engine, pattern, metrics, wallClock)
  /\ storeLog' = Append(storeLog, [pattern   |-> pattern,
                                   metrics   |-> metrics,
                                   timestamp |-> wallClock,
                                   sessionId |-> engine.patternStorage.currentSession])
  /\ UNCHANGED <<wallClock, engineCalls, sessions, metricsLog, callLog, analyzerVars, trackerVars>>

StorePattern ==
  /\ StoredCount(engine) < MaxStored
  /\ \E pattern \in PatternLabels : StorePatternStep(pattern, SampleMetrics)

SessionStartNewSession ==
  /\ sessions < MaxSessionStarts
  /\ \E suffix \in SessionSuffixes :
       engine' = startNewSession(engine, wallClock, suffix)
  /\ sessions' = sessions + 1
  /\ UNCHANGED <<wallClock, engineCalls, metricsLog, storeLog, callLog, analyzerVars, trackerVars>>

SessionClearAllData ==
  /\ sessions < MaxSessionStarts
  /\ \E suffix \in SessionSuffixes :
       engine' = clearAllData(engine, wallClock, suffix)
  /\ sessions' = sessions + 1
  /\ metricsLog' = <<>>
  /\ storeLog' = <<>>
  /\ callLog' = <<>>
  /\ UNCHANGED <<wallClock, engineCalls, analyzerVars, trackerVars>>

NextSessions ==
  \/ SessionCalculateMetrics
  \/ StorePattern
  \/ SessionStartNewSession
  \/ SessionClearAllData
  \/ Tick

SpecSessions == Init /\ [][NextSessions]_vars

(* ---- metrics engine: repeated storePattern calls ---- *)

\* the BehavioralMetrics handed to storePattern
StoredSamples == { SampleMetrics, [SampleMetrics EXCEPT !.typingSpeed = Whole(20)] }

\* number of storePattern calls explored between two clearAllData calls
MaxStoreCalls == 3

StoreSample ==
  /\ Len(storeLog) < MaxStoreCalls
  /\ \E pattern \in PatternLabels : \E metrics \in StoredSamples :
       StorePatternStep(pattern, metrics)

\* number of calculateMetrics calls explored next to the storePattern calls
MaxStoreMetricsCalls == 1

StoreCalculateMetrics ==
  /\ engineCalls < MaxStoreMetricsCalls
  /\ \E suffix \in RandomSuffixes :
       LET actions == << Keystroke(0), Keystroke(1500) >>
       IN  /\ engine' = calculateMetrics(engine, actions, wallClock, suffix)
           /\ metricsLog' =
                Append(metricsLog,
                       temporalMetricsOf(engine, metricsOf(engine, actions), wallClock))
           /\ callLog' = Append(callLog, loggedCall(engine, actions))
  /\ engineCalls' = engineCalls + 1
  /\ UNCHANGED <<wallClock, sessions, storeLog, analyzerVars, trackerVars>>

NextStore ==
  \/ StoreSample
  \/ StoreCalculateMetrics
  \/ StartNewSession
  \/ Tick

SpecStore == Init /\ [][NextStore]_vars

(* ---- metrics engine: fatigue windows and malformed input ---- *)

\* a keystroke action with no metadata at all
KeystrokeNoKey(t) == BehavioralAction("keystroke", t, 0, EmptyMetadata)

\* a keystroke action that carries the key token and nothing else
KeystrokeKeyOnly(t) == BehavioralAction("keystroke", t, 0, [hashedKey |-> TokenA])

ContextSwitchAt(t) ==
  BehavioralAction("context_switch", t, 100, [from |-> "a.ts", to |-> "b.ts"])

\* well-formed batches with 0, 1 and 2 context switches
WellFormedBatches ==
  { <<>>,
    << Keystroke(0), ContextSwitchAt(700), Keystroke(1500) >>,
    << ContextSwitchAt(5000), ContextSwitchAt(6000) >> }

\* batches whose keystroke actions miss expected metadata
MalformedBatches ==
  { << KeystrokeNoKey(3000), KeystrokeKeyOnly(4500) >> }

MetricsBatches == WellFormedBatches \cup MalformedBatches

\* number of calculateMetrics calls explored with these batches
MaxMetricsCalls == 4

MetricsCalculate ==
  /\ engineCalls < MaxMetricsCalls
  /\ \E actions \in MetricsBatches : \E suffix \in RandomSuffixes :
       /\ engine' = calculateMetrics(engine, actions, wallClock, suffix)
       /\ metricsLog' =
            Append(metricsLog,
                   temporalMetricsOf(engine, metricsOf(engine, actions), wallClock))
       /\ callLog' = Append(callLog, loggedCall(engine, actions))
  /\ engineCalls' = engineCalls + 1
  /\ UNCHANGED <<wallClock, sessions, storeLog, analyzerVars, trackerVars>>

NextMetrics == MetricsCalculate \/ StartNewSession \/ Tick

SpecMetrics == Init /\ [][NextMetrics]_vars

(* ---- metrics engine: session ids along the history ---- *)

RolloverBatches == { <<>>, << ContextSwitchAt(5000) >> }

\* number of calculateMetrics calls explored across sessions
MaxRolloverCalls == 3
\* number of startNewSession calls explored across sessions
MaxRolloverStarts == 2

RolloverCalculateMetrics ==
  /\ engineCalls < MaxRolloverCalls
  /\ \E actions \in RolloverBatches : \E suffix \in SessionSuffixes :
       /\ engine' = calculateMetrics(engine, actions, wallClock, suffix)
       /\ metricsLog' =
            Append(metricsLog,
                   temporalMetricsOf(engine, metricsOf(engine, actions), wallClock))
       /\ callLog' = Append(callLog, loggedCall(engine, actions))
  /\ engineCalls' = engineCalls + 1
  /\ UNCHANGED <<wallClock, sessions, storeLog, analyzerVars, trackerVars>>

RolloverStartNewSession ==
  /\ sessions < MaxRolloverStarts
  /\ \E suffix \in SessionSuffixes :
       engine' = startNewSession(engine, wallClock, suffix)
  /\ sessions' = sessions + 1
  /\ UNCHANGED <<wallClock, engineCalls, metricsLog, storeLog, callLog, analyzerVars, trackerVars>>

NextRollover == RolloverCalculateMetrics \/ RolloverStartNewSession \/ Tick

SpecRollover == Init /\ [][NextRollover]_vars

(* ---- query operations of the three components ---- *)

EngineQueries ==
  {"detectFatigue", "getSessionStatistics", "getMetricsHistory",
   "getPatternsByTimeRange", "getCurrentSessionPatterns"}

AnalyzerQueries == {"extractTimingPatterns", "analyzeStatistics", "toBehavioralActions"}

TrackerQueries ==
  {"detectPatternChanges", "analyzeFocusPatterns", "getContextSwitchStatistics",
   "getRecentSequences", "getCurrentBuffer", "getConfig"}

\* the engine after one of its queries: each reads metricsHistory and the
\* pattern index through slice(), filter() and reduce() and assigns no
\* member; none calls storeMetrics, where the session timeout is checked
engineAfterQuery(en, query) == en

\* the analyzer after one of its queries: the buffers are read through
\* filter(), map(), slice() and reduce() only
analyzerAfterQuery(an, query) == an

\* mutant: getRecentSequences takes the sequences out of the history
trackerAfterQueryDrains(tr, query) ==
  IF query = "getRecentSequences" THEN [tr EXCEPT !.sequences = <<>>] ELSE tr

\* the tracker after one of its queries: the histories are read through
\* slice(), filter(), reduce() and forEach() and the buffer and the
\* configuration are returned as copies
trackerAfterQuery(tr, query) == tr

QueryTimes == {0, 1500}

QueryEvents ==
  { KeystrokeEvent(KeyA, t, [type |-> "keydown", mods |-> NoModifiers]) : t \in QueryTimes }

QueryActions(t) ==
  { BehavioralAction("file_switch", t, 100, [fileName |-> "a.ts"]),
    BehavioralAction("context_switch", t, 100, [from |-> "a.ts", to |-> "b.ts"]) }

QueryBatches == { << Keystroke(0), ContextSwitchAt(700), Keystroke(1500) >> }

\* number of processKeystroke calls explored between queries
MaxQueryKeystrokes == 3
\* number of recordAction calls explored between queries
MaxQueryRecorded == 2
\* number of calculateMetrics calls explored between queries
MaxQueryCalls == 1
\* number of query calls explored
MaxQueries == 2

QueryProcessKeystroke ==
  /\ sinceClear < MaxQueryKeystrokes
  /\ \E event \in QueryEvents : ProcessKeystrokeStep(event)

QueryRecordAction ==
  /\ recorded < MaxQueryRecorded
  /\ \E action \in QueryActions(hostClock + 100) : RecordActionStep(action)
  /\ UNCHANGED <<analyzerVars, engineVars>>

QueryCalculateMetrics ==
  /\ engineCalls < MaxQueryCalls
  /\ \E actions \in QueryBatches : \E suffix \in RandomSuffixes :
       /\ engine' = calculateMetrics(engine, actions, wallClock, suffix)
       /\ metricsLog' =
            Append(metricsLog,
                   temporalMetricsOf(engine, metricsOf(engine, actions), wallClock))
       /\ callLog' = Append(callLog, loggedCall(engine, actions))
  /\ engineCalls' = engineCalls + 1
  /\ UNCHANGED <<wallClock, sessions, storeLog, analyzerVars, trackerVars>>

EngineQuery ==
  /\ queried < MaxQueries
  /\ \E query \in EngineQueries : engine' = engineAfterQuery(engine, query)
  /\ queried' = queried + 1
  /\ UNCHANGED <<analyzer, tokensOf, sinceClear, trackerVars>>
  /\ UNCHANGED <<wallClock, engineCalls, sessions, metricsLog, storeLog, callLog>>

AnalyzerQuery ==
  /\ queried < MaxQueries
  /\ \E query \in AnalyzerQueries : analyzer' = analyzerAfterQuery(analyzer, query)
  /\ queried' = queried + 1
  /\ UNCHANGED <<tokensOf, sinceClear, trackerVars, engineVars>>

TrackerQuery ==
  /\ queried < MaxQueries
  /\ \E query \in TrackerQueries : tracker' = trackerAfterQuery(tracker, query)
  /\ queried' = queried + 1
  /\ UNCHANGED <<analyzer, tokensOf, sinceClear, engineVars>>
  /\ UNCHANGED <<hostClock, recorded, switchLog, chain>>

NextQueries ==
  \/ QueryProcessKeystroke
  \/ QueryRecordAction
  \/ QueryCalculateMetrics
  \/ Tick
  \/ EngineQuery
  \/ AnalyzerQuery
  \/ TrackerQuery

SpecQueries == Init /\ [][NextQueries]_vars

----------------------------------------------------------------------------
(* C1: in every reachable state of the keystroke analyzer the hashed-event *)
(* buffer exposed by toBehavioralActions and the interval buffer each hold *)
(* at most bufferSize entries.                                             *)
C1_BufferBound ==
  /\ Len(toBehavioralActions(analyzer)) <= bufferSize
  /\ Len(analyzer.timingBuffer) <= bufferSize

\* both buffers are full: more than bufferSize events were ingested
C1_Witness ==
  /\ Len(toBehavioralActions(analyzer)) = bufferSize
  /\ Len(analyzer.timingBuffer) = bufferSize

(* C7: the token stored for a raw key is a function of that key alone: all *)
(* processKeystroke calls with the same raw key store the same token,      *)
(* whatever the timestamps, modifiers, intervening events, evictions or    *)
(* clearData calls.                                                        *)
C7_HashDeterminism ==
  \A k \in RawKeys : Cardinality(tokensOf[k]) <= 1

\* two buffered events carry one token although their timestamps and
\* modifiers differ, and every raw key has been hashed at least once
C7_Witness ==
  /\ \A k \in RawKeys : tokensOf[k] # {}
  /\ \E i, j \in 1..Len(analyzer.keyEvents) :
       /\ i < j
       /\ analyzer.keyEvents[i].key = analyzer.keyEvents[j].key
       /\ analyzer.keyEvents[i].timestamp # analyzer.keyEvents[j].timestamp
       /\ analyzer.keyEvents[i].ctrlKey # analyzer.keyEvents[j].ctrlKey

(* C8: for every raw key k passed to processKeystroke the stored token has *)
(* the form key_<decimal digits>, differs from k and does not contain k as *)
(* a substring.                                                            *)
C8_TokenHidesKey ==
  /\ \A k \in RawKeys : \A t \in tokensOf[k] :
       /\ MatchesKeyDigits(t)
       /\ t # k
       /\ ~Includes(t, k)
  /\ \A i \in 1..Len(analyzer.keyEvents) :
       \E k \in RawKeys : analyzer.keyEvents[i].key \in tokensOf[k]

----------------------------------------------------------------------------
(* C2: under any interleaving of recordAction, updateConfig and clearData  *)
(* the buffer returned by getCurrentBuffer is never longer than the        *)
(* currently configured bufferSize.                                        *)
C2_BufferWithinConfig ==
  Len(getCurrentBuffer(tracker)) <= tracker.config.bufferSize

(* C3: every collection of the tracker has a fixed upper bound: the list   *)
(* of closed focus segments never outgrows the cap of the context-switch   *)
(* history, of which it holds one entry per recorded switch.               *)
C3_FocusSegmentsCapped ==
  Len(tracker.focusSegments) <= maxContextSwitches

(* C5: the sequence history holds at most maxSequences entries and the     *)
(* context-switch history at most maxContextSwitches; each is the most     *)
(* recent entries in creation order (the oldest is the one evicted).       *)
C5_HistoriesCapped ==
  /\ Len(tracker.sequences) <= maxSequences
  /\ Len(tracker.contextSwitches) <= maxContextSwitches
  /\ \A i \in 1..Len(tracker.sequences) :
       tracker.sequences[i].id =
         <<"seq", tracker.sequenceIdCounter - Len(tracker.sequences) + i>>
  /\ tracker.contextSwitches = LastN(switchLog, maxContextSwitches)

\* both histories have evicted at least one entry
C5_Witness ==
  /\ tracker.sequenceIdCounter > maxSequences
  /\ Len(tracker.sequences) = maxSequences
  /\ Len(switchLog) > maxContextSwitches
  /\ Len(tracker.contextSwitches) = maxContextSwitches

(* C9: from a fresh or cleared tracker, after k >= 1 file-switch or        *)
(* context-switch actions whose candidate labels each differ from the one  *)
(* before, totalSwitches is k - 1 (while k - 1 is within the history cap). *)
C9_SwitchCount ==
  (chain.differing /\ chain.count >= 1 /\ chain.count - 1 <= maxContextSwitches)
    => totalSwitches(tracker) = chain.count - 1

\* three context-establishing actions with differing labels: two switches
C9_Witness ==
  /\ chain.differing
  /\ chain.count = 3
  /\ totalSwitches(tracker) = 2

----------------------------------------------------------------------------
(* C4: after n calculateMetrics calls since construction or the last       *)
(* clearAllData, getMetricsHistory() holds exactly min(n, maxHistorySize)  *)
(* entries: those of the most recent calls, in call order, with            *)
(* non-decreasing timestamps.                                              *)
C4_HistoryIsRecentCalls ==
  LET history == getMetricsHistory(engine)
      n == Len(metricsLog)
  IN  /\ Len(history) = Min(n, maxHistorySize)
      /\ history = LastN(metricsLog, maxHistorySize)
      /\ \A i \in 1..(Len(history) - 1) :
           history[i].timestamp <= history[i + 1].timestamp

\* more calls than the history holds, made at different times
C4_Witness ==
  /\ Len(metricsLog) > maxHistorySize
  /\ Len(getMetricsHistory(engine)) = maxHistorySize
  /\ engine.metricsHistory[1].timestamp < engine.metricsHistory[maxHistorySize].timestamp

(* C6: detectFatigue().overallFatigueScore lies in [0,1], and so does the  *)
(* fatigueLevel of every BehavioralMetrics that calculateMetrics returned. *)
InUnitInterval(x) == RLeq(Zero, x) /\ RLeq(x, One)

C6_FatigueWithinUnit ==
  /\ InUnitInterval(detectFatigue(engine).overallFatigueScore)
  /\ \A i \in 1..Len(metricsLog) :
       InUnitInterval(metricsLog[i].metrics.fatigueLevel)

(* C11: a recorded switch caused by a file-switch action has reason        *)
(* "file_switch"; one caused by a context-switch action has the action's   *)
(* declared reason, or "manual" if none; one caused by any other kind has  *)
(* reason "focus_loss" when the action's timestamp exceeds the previously  *)
(* recorded action's timestamp by more than focusLossThreshold, otherwise  *)
(* "manual".                                                               *)
ClaimedReason(action, previousTimestamp, focusLossThreshold) ==
  CASE action.type = "file_switch" -> "file_switch"
    [] action.type = "context_switch" ->
         OrDefault(Get(action.metadata, "reason"), "manual")
    [] OTHER ->
         IF action.timestamp - previousTimestamp > focusLossThreshold
         THEN "focus_loss" ELSE "manual"

C11_SwitchReason ==
  [][\A action \in FocusActions(hostClock') :
       (RecordActionStep(action) /\ Len(switchLog') = Len(switchLog) + 1)
       => switchLog'[Len(switchLog')].reason =
            ClaimedReason(action, hostClock, tracker.config.focusLossThreshold)]_vars

(* C12: when a focus segment is open and an action is recorded whose       *)
(* timestamp exceeds the previous recorded action's timestamp by more than *)
(* focusLossThreshold, the open segment is closed (appended to the stored  *)
(* focus segments with its end time fixed) and a new segment is opened.    *)
C12_FocusLossClosesSegment ==
  [][\A action \in FocusActions(hostClock') :
       ( /\ RecordActionStep(action)
         /\ recorded > 0
         /\ tracker.currentFocusSegment # Null
         /\ action.timestamp - hostClock > tracker.config.focusLossThreshold )
       => /\ Len(tracker'.focusSegments) = Len(tracker.focusSegments) + 1
          /\ tracker'.focusSegments[Len(tracker'.focusSegments)].endTime
               = action.timestamp
          /\ tracker'.currentFocusSegment # Null]_vars

(* C13: an ActionSequence is created only when the action buffer reaches   *)
(* its configured capacity: the sequence a recordAction call finalizes     *)
(* holds exactly as many actions as the bufferSize configured at that      *)
(* moment, in recording order, and the action buffer is empty right after, *)
(* under any interleaving of recordAction and updateConfig.                *)
C13_SequenceHoldsBufferSize ==
  [][(tracker'.sequenceIdCounter = tracker.sequenceIdCounter + 1)
     => LET sequence == tracker'.sequences[Len(tracker'.sequences)]
        IN  /\ Len(sequence.actions) = tracker'.config.bufferSize
            /\ tracker'.actionBuffer = <<>>
            /\ \E action \in TrackerActions(hostClock') :
                 sequence.actions =
                   LastN(Append(tracker.actionBuffer, action),
                         Len(sequence.actions))]_vars

(* C14: detectPatternChanges returns an empty list whenever fewer than 5   *)
(* sequences exist; when at least 5 exist, every emitted event has         *)
(* confidence in [0,1] and statisticalSignificance equal to one of 0.01,   *)
(* 0.05, 0.10, 0.5, and at most one event is emitted per pattern family,   *)
(* in the fixed order typing_rhythm, context_switching, focus_duration.    *)
SignificanceLevels == {Frac(1, 100), Frac(5, 100), Frac(10, 100), Frac(5, 10)}

FamilyIndex(patternType) ==
  CHOOSE i \in 1..Len(PatternTypes) : PatternTypes[i] = patternType

C14_PatternChangeMinimumData ==
  LET changes == detectPatternChanges(tracker)
  IN  /\ Len(tracker.sequences) < 5 => changes = <<>>
      /\ Len(changes) <= 3
      /\ \A i \in 1..Len(changes) :
           /\ RLeq(Zero, changes[i].confidence)
           /\ RLeq(changes[i].confidence, One)
           /\ changes[i].statisticalSignificance \in SignificanceLevels
      /\ \A i, j \in 1..Len(changes) :
           i < j => FamilyIndex(changes[i].patternType)
                      < FamilyIndex(changes[j].patternType)

\* five sequences or more and an event reported under the default threshold
C14_Witness ==
  /\ Len(tracker.sequences) >= 5
  /\ tracker.config.patternChangeThreshold = defaultPatternChangeThreshold
  /\ Len(detectPatternChanges(tracker)) >= 1

(* C15: a PatternChangeEvent is emitted for a pattern family only when the *)
(* significance mapped from |t| is strictly below the patternChange-       *)
(* Threshold configured at call time, and its confidence equals            *)
(* 1 - significance; a family whose two halves give zero standard error    *)
(* (t = 0) does not emit as long as that threshold is at most 0.5, the     *)
(* significance a zero t maps to.                                          *)
FamilyMetrics(tr, patternType) ==
  LET sequences == LastN(tr.sequences, patternWindow)
  IN  [i \in 1..Len(sequences) |-> extractPatternMetric(sequences[i], patternType)]

FirstHalfOf(metrics) == SubSeq(metrics, 1, Len(metrics) \div 2)
SecondHalfOf(metrics) == SubSeq(metrics, Len(metrics) \div 2 + 1, Len(metrics))

FamilySignificance(tr, patternType) ==
  LET metrics == FamilyMetrics(tr, patternType)
  IN  calculatePValue(performTTest(FirstHalfOf(metrics), SecondHalfOf(metrics)))

ZeroStandardError(tr, patternType) ==
  LET metrics == FamilyMetrics(tr, patternType)
  IN  StandardErrorSquared(FirstHalfOf(metrics), SecondHalfOf(metrics)) = Zero

Emits(tr, patternType) ==
  \E i \in 1..Len(detectPatternChanges(tr)) :
    detectPatternChanges(tr)[i].patternType = patternType

EmittedBelowThreshold(tr) ==
  LET changes == detectPatternChanges(tr)
  IN  \A i \in 1..Len(changes) :
        /\ changes[i].statisticalSignificance
             = FamilySignificance(tr, changes[i].patternType)
        /\ RLess(changes[i].statisticalSignificance, tr.config.patternChangeThreshold)
        /\ changes[i].confidence = RSub(One, changes[i].statisticalSignificance)

C15_EmissionThreshold ==
  /\ EmittedBelowThreshold(tracker)
  /\ RLeq(tracker.config.patternChangeThreshold, Frac(5, 10))
       => \A i \in 1..Len(PatternTypes) :
            (Len(tracker.sequences) >= minPatternSequences
             /\ ZeroStandardError(tracker, PatternTypes[i]))
            => ~Emits(tracker, PatternTypes[i])

\* under a threshold of at most 0.5, one family emits while another, with
\* zero standard error, does not
C15_Witness ==
  /\ Len(tracker.sequences) >= minPatternSequences
  /\ RLeq(tracker.config.patternChangeThreshold, Frac(5, 10))
  /\ Len(detectPatternChanges(tracker)) >= 1
  /\ \E i \in 1..Len(PatternTypes) :
       /\ ZeroStandardError(tracker, PatternTypes[i])
       /\ ~Emits(tracker, PatternTypes[i])

\* C15 as stated: a family with zero standard error never emits, whatever
\* the configured threshold
C15_ZeroStandardErrorNeverEmits ==
  /\ EmittedBelowThreshold(tracker)
  /\ \A i \in 1..Len(PatternTypes) :
       (Len(tracker.sequences) >= minPatternSequences
        /\ ZeroStandardError(tracker, PatternTypes[i]))
       => ~Emits(tracker, PatternTypes[i])

(* C16: every startNewSession call yields a current session id different   *)
(* from the previous one and from every id that labels a stored entry, and *)
(* immediately afterwards getSessionStatistics().metricsCount is 0.        *)
SessionIdsIn(history) == {history[i].sessionId : i \in 1..Len(history)}

StoredSessionIds(en) ==
  SessionIdsIn(en.metricsHistory)
    \cup UNION {SessionIdsIn(en.patternStorage.patterns[label]) :
                  label \in DOMAIN en.patternStorage.patterns}

IsStartNewSessionStep ==
  /\ sessions' = sessions + 1
  /\ \E suffix \in SessionSuffixes :
       engine' = startNewSession(engine, wallClock, suffix)

C16_SessionReset ==
  [][IsStartNewSessionStep
     => /\ engine'.patternStorage.currentSession # engine.patternStorage.currentSession
        /\ engine'.patternStorage.currentSession \notin StoredSessionIds(engine)
        /\ metricsCount(engine') = 0]_vars

(* C17: startNewSession changes only the session id, the session start     *)
(* time and the nested keystroke analyzer's buffers, which become empty:   *)
(* the metrics history and the pattern index are unchanged, entries stored *)
(* in earlier sessions are still returned by getMetricsHistory and         *)
(* getPatternsByTimeRange, and getCurrentSessionPatterns returns an empty  *)
(* map until a pattern is stored in the new session.                       *)
StartNewSessionFrame ==
  /\ engine'.metricsHistory = engine.metricsHistory
  /\ engine'.patternStorage.patterns = engine.patternStorage.patterns
  /\ engine'.patternStorage.userId = engine.patternStorage.userId
  /\ engine'.patternStorage.sessionStartTime = wallClock
  /\ engine'.keystrokeAnalyzer = NewAnalyzer
  /\ getMetricsHistory(engine') = getMetricsHistory(engine)
  /\ \A pattern \in PatternLabels :
       getPatternsByTimeRange(engine', pattern, 0, wallClock)
         = getPatternsByTimeRange(engine, pattern, 0, wallClock)

C17_StartNewSessionFrame ==
  [][IsStartNewSessionStep
     => /\ StartNewSessionFrame
        /\ DOMAIN getCurrentSessionPatterns(engine') = {}]_vars

(* C18: whenever a calculateMetrics call completes at a time when the      *)
(* elapsed duration of the current session exceeds 30 minutes, a new       *)
(* session has been started by the time the call returns (session id       *)
(* changed, start time reset, keystroke analyzer buffers empty); while the *)
(* elapsed duration is at most 30 minutes no operation other than          *)
(* startNewSession and clearAllData changes the session id.                *)
C18_SessionRollover ==
  [][/\ (engineCalls' = engineCalls + 1
         /\ getSessionDuration(engine, wallClock) > 30 * 60 * 1000)
        => /\ engine'.patternStorage.currentSession
                # engine.patternStorage.currentSession
           /\ engine'.patternStorage.sessionStartTime = wallClock
           /\ engine'.keystrokeAnalyzer = NewAnalyzer
     /\ (sessions' = sessions
         /\ getSessionDuration(engine, wallClock) <= 30 * 60 * 1000)
        => engine'.patternStorage.currentSession
             = engine.patternStorage.currentSession]_vars

\* a session that calculateMetrics itself started, more than 30 minutes
\* after construction, leaving the older session's entry in the history
C18_Witness ==
  /\ sessions = 0
  /\ engineCalls > 0
  /\ engine.patternStorage.sessionStartTime > sessionTimeoutMs
  /\ engine.keystrokeAnalyzer = NewAnalyzer
  /\ Len(engine.metricsHistory) > 0
  /\ engine.metricsHistory[Len(engine.metricsHistory)].sessionId
       # engine.patternStorage.currentSession

(* C19: clearAllData from any reachable state leaves the metrics history   *)
(* empty, the pattern index empty, the nested keystroke analyzer's buffers *)
(* empty and a new session started: afterwards getMetricsHistory() is      *)
(* empty, getCurrentSessionPatterns() is empty, metricsCount is 0 and      *)
(* detectFatigue returns all-zero indicators.                              *)
IsClearAllDataStep ==
  /\ sessions' = sessions + 1
  /\ \E suffix \in SessionSuffixes :
       engine' = clearAllData(engine, wallClock, suffix)

C19_ClearAllData ==
  [][IsClearAllDataStep
     => /\ engine'.metricsHistory = <<>>
        /\ DOMAIN engine'.patternStorage.patterns = {}
        /\ engine'.keystrokeAnalyzer.keyEvents = <<>>
        /\ engine'.keystrokeAnalyzer.timingBuffer = <<>>
        /\ engine'.patternStorage.sessionStartTime = wallClock
        /\ \E suffix \in SessionSuffixes :
             engine'.patternStorage.currentSession = generateSessionId(wallClock, suffix)
        /\ getMetricsHistory(engine') = <<>>
        /\ DOMAIN getCurrentSessionPatterns(engine') = {}
        /\ metricsCount(engine') = 0
        /\ LET indicators == detectFatigue(engine')
           IN  /\ indicators.typingSpeedDecline = Zero
               /\ indicators.increasedPauseFrequency = Zero
               /\ indicators.rhythmInconsistency = Zero
               /\ indicators.overallFatigueScore = Zero]_vars

\* clearAllData has run after calculateMetrics calls had filled the history
C19_Witness ==
  /\ engineCalls >= MaxSessionCalls
  /\ sessions > 0
  /\ metricsLog = <<>>
  /\ engine.metricsHistory = <<>>
  /\ StoredCount(engine) = 0

(* C20: after clearData from any reachable state, extractTimingPatterns    *)
(* returns the zero-value pattern, analyzeStatistics returns all-zero      *)
(* metrics (typing speed 0, histogram [0,0,0], decision time 0, rhythm     *)
(* consistency 0, fatigue 0) and toBehavioralActions returns the empty     *)
(* list; a second clearData leaves the state unchanged.                    *)
C20_ClearDataDefaults ==
  [][(analyzer' = clearData(analyzer) /\ UNCHANGED tokensOf)
     => /\ extractTimingPatterns(analyzer')
             = [averageInterval |-> Zero, variance |-> Zero, rhythm |-> <<>>,
                pauseCount |-> 0, burstCount |-> 0]
        /\ analyzeStatistics(analyzer')
             = [typingSpeed |-> Zero, pausePatterns |-> <<0, 0, 0>>,
                decisionTime |-> Zero, rhythmConsistency |-> Zero,
                fatigueIndicators |-> Zero]
        /\ toBehavioralActions(analyzer') = <<>>
        /\ clearData(analyzer') = analyzer']_vars

\* cleared after keystrokes of every raw key had been processed
C20_Witness ==
  /\ \A key \in RawKeys : tokensOf[key] # {}
  /\ analyzer.keyEvents = <<>>
  /\ analyzer.timingBuffer = <<>>

\* the all-zero KeystrokeMetrics
DefaultStatistics ==
  [typingSpeed |-> Zero, pausePatterns |-> <<0, 0, 0>>, decisionTime |-> Zero,
   rhythmConsistency |-> Zero, fatigueIndicators |-> Zero]

(* C21: after clearData (or construction), toBehavioralActions is empty    *)
(* only while no new event has been processed; analyzeStatistics is all    *)
(* zero while fewer than 2 new events have been processed;                 *)
(* extractTimingPatterns is the zero-value pattern exactly while fewer     *)
(* than 3 new events (2 intervals) have been processed.                    *)
C21_DefaultsAfterClear ==
  /\ (toBehavioralActions(analyzer) = <<>>) <=> (sinceClear = 0)
  /\ sinceClear < 2 => analyzeStatistics(analyzer) = DefaultStatistics
  /\ (extractTimingPatterns(analyzer) = getDefaultPattern) <=> (sinceClear < 3)

\* all three raw keys have been processed and two events are buffered, so
\* clearData has run and exactly two events, 1500 ms apart, came after it:
\* the statistics have left their defaults, the timing pattern has not
C21_Witness ==
  /\ \A key \in RawKeys : tokensOf[key] # {}
  /\ sinceClear = 2
  /\ Len(analyzer.keyEvents) = 2
  /\ analyzer.timingBuffer = <<1500>>
  /\ analyzeStatistics(analyzer) # DefaultStatistics
  /\ extractTimingPatterns(analyzer) = getDefaultPattern

\* C21 as stated: all three queries return their defaults while fewer than 2
\* new events have been processed, and none does once 2 have arrived
C21_DefaultsUntilTwoEvents ==
  /\ sinceClear < 2 =>
       /\ toBehavioralActions(analyzer) = <<>>
       /\ analyzeStatistics(analyzer) = DefaultStatistics
       /\ extractTimingPatterns(analyzer) = getDefaultPattern
  /\ sinceClear >= 2 =>
       /\ toBehavioralActions(analyzer) # <<>>
       /\ analyzeStatistics(analyzer) # DefaultStatistics
       /\ extractTimingPatterns(analyzer) # getDefaultPattern

\* number of positions of s whose element satisfies Test
CountIn(s, Test(_)) == Cardinality({ i \in 1..Len(s) : Test(s[i]) })

(* C22: with at least 2 buffered intervals, extractTimingPatterns reports  *)
(* pauseCount = the number of buffered intervals strictly greater than     *)
(* 1000 ms and burstCount = the number strictly less than 100 ms, so an    *)
(* interval of exactly 1000 or exactly 100 counts as neither; with fewer   *)
(* than 2 intervals it returns the zero-value pattern.                     *)
C22_PauseBurstClassification ==
  LET pattern == extractTimingPatterns(analyzer)
      Over1000(x) == x > 1000
      Under100(x) == x < 100
  IN  IF Len(analyzer.timingBuffer) >= 2
      THEN /\ pattern.pauseCount = CountIn(analyzer.timingBuffer, Over1000)
           /\ pattern.burstCount = CountIn(analyzer.timingBuffer, Under100)
      ELSE pattern = [averageInterval |-> Zero, variance |-> Zero, rhythm |-> <<>>,
                      pauseCount |-> 0, burstCount |-> 0]

\* intervals of exactly 100 and exactly 1000 ms next to one of 2000 ms:
\* one pause, no burst
C22_Witness ==
  /\ analyzer.timingBuffer = <<100, 1000, 2000>>
  /\ extractTimingPatterns(analyzer).pauseCount = 1
  /\ extractTimingPatterns(analyzer).burstCount = 0

(* C27: a negative interval, produced by non-monotonic timestamps, is      *)
(* buffered but contributes to neither pauseCount nor burstCount nor any   *)
(* bucket of the pause histogram: the counts are those of the              *)
(* non-negative intervals alone.                                           *)
C27_NegativeIntervalsUnclassified ==
  LET intervals == analyzer.timingBuffer
      pattern == extractTimingPatterns(analyzer)
      histogram == analyzePausePatterns(analyzer)
      PositivePause(x) == x >= 0 /\ x > 1000
      PositiveBurst(x) == x >= 0 /\ x < 100
  IN  /\ histogram[1] + histogram[2] + histogram[3] = CountIn(intervals, PositivePause)
      /\ Len(intervals) >= 2 =>
           /\ pattern.pauseCount = CountIn(intervals, PositivePause)
           /\ pattern.burstCount = CountIn(intervals, PositiveBurst)

\* the window of entries that detectFatigue compares the most recent
\* fatigueWindowSize entries with
EarlierWindow(history) ==
  SubSeq(history, Max(0, Len(history) - fatigueWindowSize * 2) + 1,
         Len(history) - fatigueWindowSize)

(* C23: detectFatigue returns all-zero indicators whenever the history     *)
(* holds at most fatigueWindowSize entries (with exactly that many, the    *)
(* window before the most recent ones is empty); whenever it holds more,   *)
(* the window before the most recent fatigueWindowSize entries is          *)
(* non-empty and the indicators are the relative changes between the       *)
(* averages of the two windows.                                            *)
C23_FatigueNeedsEarlierWindow ==
  LET history == engine.metricsHistory
      recent == LastN(history, fatigueWindowSize)
      earlier == EarlierWindow(history)
      fatigue == detectFatigue(engine)
  IN  IF Len(history) <= fatigueWindowSize
      THEN fatigue = [typingSpeedDecline |-> Zero, increasedPauseFrequency |-> Zero,
                      rhythmInconsistency |-> Zero, overallFatigueScore |-> Zero]
      ELSE /\ Len(recent) = fatigueWindowSize
           /\ Len(earlier) >= 1
           /\ Len(earlier) = Min(Len(history) - fatigueWindowSize, fatigueWindowSize)
           /\ fatigue.typingSpeedDecline =
                RelativeChange(calculateAverageTypingSpeed(earlier),
                               calculateAverageTypingSpeed(recent),
                               calculateAverageTypingSpeed(earlier))
           /\ fatigue.increasedPauseFrequency =
                RelativeChange(calculateAveragePauseFrequency(recent),
                               calculateAveragePauseFrequency(earlier),
                               calculateAveragePauseFrequency(earlier))

\* more entries than one window, and the comparison reports fatigue
C23_Witness ==
  /\ Len(engine.metricsHistory) > fatigueWindowSize
  /\ detectFatigue(engine).overallFatigueScore # Zero

\* C23 as stated: with at least fatigueWindowSize entries the window before
\* the most recent ones is non-empty
C23_EarlierWindowNonEmpty ==
  /\ Len(engine.metricsHistory) < fatigueWindowSize =>
       detectFatigue(engine) = getDefaultFatigueIndicators
  /\ Len(engine.metricsHistory) >= fatigueWindowSize =>
       Len(EarlierWindow(engine.metricsHistory)) >= 1

(* C25: calculateMetrics on keystroke actions with missing metadata: an    *)
(* action without the key token leaves the keystroke analyzer's buffers    *)
(* unchanged; one with the token but without phase and modifiers is        *)
(* ingested as a keydown with all modifiers false; the call still returns  *)
(* a BehavioralMetrics and appends exactly one history entry (evicting     *)
(* the oldest one when the history is full).  When the call finds the      *)
(* session timed out it starts a new one, which empties the buffers.       *)
C25_MalformedKeystrokes ==
  LET an == engine.keystrokeAnalyzer
      history == engine.metricsHistory
  IN  /\ \A t \in {3000, 4500} :
           /\ routeKeystroke(an, KeystrokeNoKey(t)) = an
           /\ routeKeystroke(an, KeystrokeKeyOnly(t)) =
                processKeystroke(an, [key |-> TokenA, timestamp |-> t,
                                      type |-> "keydown", ctrlKey |-> FALSE,
                                      shiftKey |-> FALSE, altKey |-> FALSE])
      /\ \A actions \in MalformedBatches : \A suffix \in RandomSuffixes :
           LET after == calculateMetrics(engine, actions, wallClock, suffix)
               returned == metricsOf(engine, actions)
               appended == Append(history, temporalMetricsOf(engine, returned, wallClock))
           IN  /\ DOMAIN returned = {"typingSpeed", "pausePatterns", "decisionTime",
                                     "contextSwitches", "fatigueLevel"}
               /\ after.metricsHistory =
                    IF Len(history) < maxHistorySize THEN appended ELSE Shift(appended)
               /\ after.keystrokeAnalyzer =
                    IF getSessionDuration(engine, wallClock) > sessionTimeoutMs
                    THEN NewAnalyzer  \* the session timed out: buffers cleared
                    ELSE processKeystroke(an, [key |-> TokenA, timestamp |-> 4500,
                                               type |-> "keydown", ctrlKey |-> FALSE,
                                               shiftKey |-> FALSE, altKey |-> FALSE])

\* a malformed batch has been processed: its token-only keystroke is the
\* newest buffered event, a keydown without modifiers; its token-less
\* keystroke is not buffered; the call was logged
C25_Witness ==
  LET events == engine.keystrokeAnalyzer.keyEvents
  IN  /\ Len(metricsLog) >= 1
      /\ Len(events) >= 1
      /\ events[Len(events)].timestamp = 4500
      /\ events[Len(events)].type = "keydown"
      /\ ~events[Len(events)].ctrlKey
      /\ \A i \in 1..Len(events) : events[i].timestamp # 3000
      /\ Len(engine.metricsHistory) = Len(metricsLog)

\* the logged storePattern calls made with one label, in call order
CallsFor(label) ==
  LET HasLabel(call) == call.pattern = label
  IN  SelectSeq(storeLog, HasLabel)

\* the logged calls whose wall-clock reading lies in [startTime, endTime]
CallsWithin(calls, startTime, endTime) ==
  LET Within(call) == startTime <= call.timestamp /\ call.timestamp <= endTime
  IN  SelectSeq(calls, Within)

\* an entry of the pattern index is the one a logged call stored
StoredBy(entry, call) ==
  /\ entry.timestamp = call.timestamp
  /\ entry.metrics = call.metrics
  /\ entry.sessionId = call.sessionId

\* a label that no call uses
UnknownLabel == "reviewing"

\* the label's list holds one entry per call, in call order, and time-range
\* retrieval returns the entries of the calls made within the range
StoredInCallOrder ==
  /\ \A label \in PatternLabels :
       LET calls == CallsFor(label)
           list == patternHistoryOf(engine, label)
       IN  Len(calls) <= maxHistorySize =>
             /\ Len(list) = Len(calls)
             /\ \A i \in 1..Len(list) : StoredBy(list[i], calls[i])
             /\ \A startTime \in WallClockReadings : \A endTime \in WallClockReadings :
                  LET found == getPatternsByTimeRange(engine, label, startTime, endTime)
                      within == CallsWithin(calls, startTime, endTime)
                  IN  /\ Len(found) = Len(within)
                      /\ \A i \in 1..Len(found) : StoredBy(found[i], within[i])
  /\ \A startTime \in WallClockReadings : \A endTime \in WallClockReadings :
       getPatternsByTimeRange(engine, UnknownLabel, startTime, endTime) = <<>>

\* a storePattern call leaves the other labels' lists and the metrics
\* history as they were
StoreFrame ==
  Len(storeLog') = Len(storeLog) + 1 =>
    LET call == storeLog'[Len(storeLog')]
    IN  /\ \A label \in (PatternLabels \cup {UnknownLabel}) \ {call.pattern} :
             patternHistoryOf(engine', label) = patternHistoryOf(engine, label)
        /\ getMetricsHistory(engine') = getMetricsHistory(engine)
        /\ call.sessionId = engine.patternStorage.currentSession

(* C24: storePattern appends and never overwrites: after k calls with the  *)
(* same label (k within the capacity) the label's list holds k entries in  *)
(* call order, each tagged with the session id current at its call; a call *)
(* leaves the lists of all other labels and the metrics history unchanged; *)
(* getPatternsByTimeRange returns exactly the label's entries whose        *)
(* timestamp t satisfies start <= t <= end, and the empty list for an      *)
(* unknown label.                                                          *)
C24_StorePatternAppends == []StoredInCallOrder /\ [][StoreFrame]_vars

\* three calls with one label, made in two sessions and at two times, next
\* to a non-empty metrics history; a range query returns only the later ones
C24_Witness ==
  \E label \in PatternLabels :
    LET list == patternHistoryOf(engine, label)
    IN  /\ Len(list) = 3
        /\ list[1].sessionId # list[3].sessionId
        /\ list[1].timestamp < list[3].timestamp
        /\ list[1].metrics # list[2].metrics
        /\ Len(engine.metricsHistory) > 0
        /\ Len(getPatternsByTimeRange(engine, label, wallClock, wallClock)) \in {1, 2}

\* the most recently recorded action: the newest element of the buffer or,
\* when the buffer has just been turned into a sequence, that sequence's
\* last action
NewestAction(tr) ==
  IF tr.actionBuffer # <<>>
  THEN tr.actionBuffer[Len(tr.actionBuffer)]
  ELSE LET sequence == tr.sequences[Len(tr.sequences)]
       IN  sequence.actions[Len(sequence.actions)]

\* the label an action stands for, with the neutral default of its kind
LabelOrDefault(action) ==
  LET Label(field, default) ==
        IF field \in DOMAIN action.metadata /\ action.metadata[field] # ""
        THEN action.metadata[field] ELSE default
  IN  CASE action.type = "file_switch" -> Label("fileName", "unknown_file")
        [] action.type = "context_switch" -> Label("to", "unknown_context")
        [] OTHER -> Label("context", "default_context")

(* C26: recordAction completes for an action of any kind, with any subset  *)
(* of the expected metadata keys and any timestamp: the action is pushed   *)
(* onto the buffer (it is the newest buffered action or, when the push     *)
(* completed a sequence, the last action of that sequence) and, for a      *)
(* kind that bears a context, the current context is the action's label    *)
(* or the neutral default unknown_file, unknown_context or default_context.*)
C26_RecordActionTolerant ==
  /\ \A t \in RobustTimes : \A action \in RobustActions(t) :
       LET pushed == pushAction(tracker, action)
           after == recordAction(tracker, action)
       IN  /\ pushed # <<>> /\ pushed[Len(pushed)] = action
           /\ NewestAction(after) = action
           /\ ~KeepsContext(action) => after.currentContext = LabelOrDefault(action)
           /\ KeepsContext(action) => after.currentContext = tracker.currentContext
  /\ recorded > 0 =>
       /\ NewestAction(tracker).timestamp = hostClock
       /\ tracker.currentContext \in
            {"", "unknown_file", "unknown_context", "default_context", "b.ts", "terminal"}

\* a file switch without a file name, then a context switch without a
\* target at an earlier, negative timestamp: the switch between the two
\* default labels is on record
C26_Witness ==
  /\ recorded >= 2
  /\ hostClock = -1
  /\ tracker.currentContext = "unknown_context"
  /\ Len(tracker.contextSwitches) >= 1
  /\ tracker.contextSwitches[Len(tracker.contextSwitches)].fromContext = "unknown_file"
  /\ NewestAction(tracker).metadata = EmptyMetadata

(* C28: updateConfig is a merge: after updateConfig(partial) every field   *)
(* named in partial has the new value and every other field keeps its      *)
(* previous value, and nothing but the configuration changes (buffer,      *)
(* sequences, switches, focus segments and current context are unchanged). *)
C28_UpdateConfigMerges ==
  \A partial \in PartialConfigs :
    LET after == updateConfig(tracker, partial)
    IN  /\ DOMAIN after.config = DOMAIN tracker.config
        /\ \A f \in DOMAIN after.config :
             after.config[f] = IF f \in DOMAIN partial THEN partial[f]
                               ELSE tracker.config[f]
        /\ after.actionBuffer = tracker.actionBuffer
        /\ after.sequences = tracker.sequences
        /\ after.contextSwitches = tracker.contextSwitches
        /\ after.focusSegments = tracker.focusSegments
        /\ after.currentFocusSegment = tracker.currentFocusSegment
        /\ after.currentContext = tracker.currentContext
        /\ after.lastActivityTime = tracker.lastActivityTime
        /\ after.sequenceIdCounter = tracker.sequenceIdCounter

\* buffer size and two thresholds have been updated by separate calls, the
\* fourth field still has its default; a context, a switch and a sequence
\* are on record
C28_Witness ==
  /\ tracker.config = [bufferSize             |-> 1,
                       contextSwitchThreshold |-> 500,
                       focusLossThreshold     |-> 60000,
                       patternChangeThreshold |-> defaultPatternChangeThreshold]
  /\ tracker.currentContext = "b.ts"
  /\ Len(tracker.contextSwitches) = 1
  /\ Len(tracker.sequences) >= 1

(* C29: in every state reachable through the constructor with a partial    *)
(* override and updateConfig calls, bufferSize, contextSwitchThreshold,    *)
(* focusLossThreshold and patternChangeThreshold are all positive.         *)
C29_ConfigPositive ==
  /\ tracker.config.bufferSize > 0
  /\ tracker.config.contextSwitchThreshold > 0
  /\ tracker.config.focusLossThreshold > 0
  /\ RLess(Zero, tracker.config.patternChangeThreshold)

\* the logged calculateMetrics calls made while the given session id was
\* the current one
CallsInSession(sessionId) ==
  LET Tagged(call) == call.sessionId = sessionId
  IN  SelectSeq(callLog, Tagged)

SwitchesOf(calls) == SumSeq([i \in 1..Len(calls) |-> calls[i].switches])

(* C30: getSessionStatistics aggregates exactly the history entries tagged *)
(* with the current session id: after n calculateMetrics calls made in the *)
(* current session (n within the history capacity), metricsCount is n and  *)
(* totalContextSwitches is the number of context-switch actions passed     *)
(* across those n calls; fatigueProgression is 0 when the session has      *)
(* fewer than 2 entries and lies in [0,1] otherwise.                       *)
C30_SessionStatistics ==
  LET stats == getSessionStatistics(engine, wallClock)
      calls == CallsInSession(engine.patternStorage.currentSession)
  IN  Len(calls) <= maxHistorySize =>
        /\ stats.sessionId = engine.patternStorage.currentSession
        /\ stats.metricsCount = Len(calls)
        /\ stats.totalContextSwitches = SwitchesOf(calls)
        /\ Len(calls) < 2 => stats.fatigueProgression = Zero
        /\ RLeq(Zero, stats.fatigueProgression)
        /\ RLeq(stats.fatigueProgression, One)

\* a second session with three calls of its own after a first one with a
\* call: three context switches were passed in the current session, and the
\* typing speed fell between its halves
C30_Witness ==
  LET stats == getSessionStatistics(engine, wallClock)
  IN  /\ sessions = 1
      /\ Len(engine.metricsHistory) = 4
      /\ stats.metricsCount = 3
      /\ stats.totalContextSwitches = 3
      /\ RLess(Zero, stats.fatigueProgression)

\* a step of the sequence tracker's clearData
IsTrackerClearStep ==
  /\ recorded' = recorded
  /\ tracker' = trackerClearData(tracker, hostClock)

(* C31: the sequence tracker's clearData keeps the configuration and       *)
(* resets the recorded data: afterwards the action buffer, the sequence    *)
(* history, the context-switch history and the stored focus segments are   *)
(* empty, no focus segment is open and the current context is unset; the   *)
(* next context-establishing action establishes its context and opens a    *)
(* segment without recording a switch, and the first sequence completed    *)
(* afterwards is seq_1.                                                    *)
C31_TrackerClearData ==
  [][IsTrackerClearStep
     => /\ tracker'.config = tracker.config
        /\ getCurrentBuffer(tracker') = <<>>
        /\ tracker'.sequences = <<>>
        /\ tracker'.contextSwitches = <<>>
        /\ tracker'.focusSegments = <<>>
        /\ tracker'.currentFocusSegment = Null
        /\ tracker'.currentContext = ""
        /\ tracker'.sequenceIdCounter = 0
        /\ \A action \in TrackerActions(hostClock + 100) :
             LET after == recordAction(tracker', action)
             IN  /\ after.contextSwitches = <<>>
                 /\ after.focusSegments = <<>>
                 /\ after.sequences # <<>> => after.sequences[1].id = <<"seq", 1>>
                 /\ ~KeepsContext(action) =>
                      /\ after.currentContext # ""
                      /\ after.currentFocusSegment # Null
                      /\ after.currentFocusSegment.context = after.currentContext]_vars

\* actions have been recorded and the capacity changed, and no action, no
\* sequence and no context is left: the tracker has just been cleared
C31_Witness ==
  /\ recorded >= 2
  /\ tracker.config.bufferSize # defaultBufferSize
  /\ tracker.actionBuffer = <<>>
  /\ tracker.sequences = <<>>
  /\ tracker.sequenceIdCounter = 0
  /\ tracker.currentContext = ""
  /\ tracker.focusSegments = <<>>


\* the engine as it was when the call that appended entry i began, while
\* no entry has been evicted
EngineBeforeEntry(i) ==
  [engine EXCEPT !.metricsHistory = SubSeq(engine.metricsHistory, 1, i - 1)]

(* C32: the fatigueLevel of the metrics a calculateMetrics call returns    *)
(* and stores is the overall score of detectFatigue on the history as it   *)
(* was before the call's own entry was appended; a call made while the     *)
(* history holds fewer than fatigueWindowSize entries has fatigueLevel 0.  *)
C32_FatigueLevelBeforeAppend ==
  Len(engine.metricsHistory) = engineCalls =>
    \A i \in 1..Len(engine.metricsHistory) :
      LET returned == engine.metricsHistory[i].metrics
      IN  /\ returned = metricsLog[i].metrics
          /\ returned.fatigueLevel = detectFatigue(EngineBeforeEntry(i)).overallFatigueScore
          /\ i - 1 < fatigueWindowSize => returned.fatigueLevel = Zero

\* the last call returned a fatigue level above 0 that differs from the
\* score of the history that includes the call's entry
C32_Witness ==
  /\ engine.metricsHistory # <<>>
  /\ Len(engine.metricsHistory) = engineCalls
  /\ RLess(Zero, engine.metricsHistory[engineCalls].metrics.fatigueLevel)
  /\ engine.metricsHistory[engineCalls].metrics.fatigueLevel
       # detectFatigue(engine).overallFatigueScore


\* a step of processKeystroke: it leaves a newest event in the buffer
IsProcessKeystrokeStep == analyzer'.keyEvents # <<>>

\* the interval appended by the step, measured from the event processed
\* immediately before it
IntervalFromPreceding ==
  LET before == analyzer.keyEvents
      after  == analyzer'.keyEvents
      interval == after[Len(after)].timestamp - before[Len(before)].timestamp
  IN  IF before = <<>>
      THEN analyzer'.timingBuffer = <<>> /\ analyzer.timingBuffer = <<>>
      ELSE analyzer'.timingBuffer = LastN(Append(analyzer.timingBuffer, interval), bufferSize)

(* C33: every interval processKeystroke appends is the new timestamp minus *)
(* the timestamp of the event processed immediately before, also when the  *)
(* event buffer has just evicted its oldest entry; the first event after   *)
(* construction or clearData appends none; with n events since the last    *)
(* clear the event buffer holds min(n, bufferSize) entries and the         *)
(* interval buffer min(max(n - 1, 0), bufferSize).                         *)
C33_IntervalsFromPrecedingEvent ==
  /\ [](/\ Len(analyzer.keyEvents) = Min(sinceClear, bufferSize)
        /\ Len(analyzer.timingBuffer) = Min(Max(sinceClear - 1, 0), bufferSize))
  /\ [][IsProcessKeystrokeStep => IntervalFromPreceding]_vars

\* more events than the buffer holds were processed since the last clear:
\* the oldest event was evicted and the newest interval, a pause, is still
\* the difference of the last two timestamps
C33_Witness ==
  /\ sinceClear > bufferSize
  /\ Len(analyzer.timingBuffer) = bufferSize
  /\ analyzer.timingBuffer[bufferSize]
       = analyzer.keyEvents[bufferSize].timestamp
           - analyzer.keyEvents[bufferSize - 1].timestamp
  /\ analyzer.timingBuffer[bufferSize] > pauseThreshold
  /\ analyzer.timingBuffer[1] < 0


\* number of buffered intervals in [low, high)
IntervalsWithin(low, high) ==
  Cardinality({ i \in 1..Len(analyzer.timingBuffer) :
                  analyzer.timingBuffer[i] >= low /\ analyzer.timingBuffer[i] < high })

\* number of buffered intervals of at least low
IntervalsFrom(low) ==
  Cardinality({ i \in 1..Len(analyzer.timingBuffer) : analyzer.timingBuffer[i] >= low })

\* number of buffered intervals strictly greater than pauseThreshold
PausedIntervals == IntervalsFrom(pauseThreshold + 1)

(* C34: the pause histogram of analyzeStatistics partitions the buffered   *)
(* intervals above pauseThreshold into short (< 2000), medium (2000 up to  *)
(* but not including 5000) and long (>= 5000), so its sum is their number; *)
(* that number is the pauseCount of extractTimingPatterns when at least    *)
(* two intervals are buffered, and with fewer the pauseCount is 0.         *)
C34_PauseHistogram ==
  LET histogram  == analyzeStatistics(analyzer).pausePatterns
      pauseCount == extractTimingPatterns(analyzer).pauseCount
  IN  /\ histogram[1] = IntervalsWithin(pauseThreshold + 1, 2000)
      /\ histogram[2] = IntervalsWithin(2000, 5000)
      /\ histogram[3] = IntervalsFrom(5000)
      /\ histogram[1] + histogram[2] + histogram[3] = PausedIntervals
      /\ Len(analyzer.timingBuffer) >= 2 => pauseCount = PausedIntervals
      /\ Len(analyzer.timingBuffer) < 2 => pauseCount = 0

\* intervals of exactly 2000 ms and exactly 5000 ms are buffered and
\* counted as one medium and one long pause
C34_Witness ==
  /\ \E i \in 1..Len(analyzer.timingBuffer) : analyzer.timingBuffer[i] = 2000
  /\ \E i \in 1..Len(analyzer.timingBuffer) : analyzer.timingBuffer[i] = 5000
  /\ analyzeStatistics(analyzer).pausePatterns = <<0, 1, 1>>
  /\ extractTimingPatterns(analyzer).pauseCount = 2

\* C34 as stated: in every state the sum of the histogram is the pauseCount
\* of extractTimingPatterns
C34_HistogramSumIsPauseCount ==
  LET histogram == analyzeStatistics(analyzer).pausePatterns
  IN  /\ histogram[1] + histogram[2] + histogram[3] = PausedIntervals
      /\ histogram[1] + histogram[2] + histogram[3]
           = extractTimingPatterns(analyzer).pauseCount


\* the actions of the first k stored sequences, one sequence after the other
RECURSIVE ActionsOfSequences(_, _)
ActionsOfSequences(sequences, k) ==
  IF k = 0 THEN <<>>
  ELSE ActionsOfSequences(sequences, k - 1) \o sequences[k].actions

\* the stored sequences followed by the action buffer
ActionsHeld(tr) ==
  ActionsOfSequences(tr.sequences, Len(tr.sequences)) \o getCurrentBuffer(tr)

\* the actions held after the step are those held before it followed by
\* the action just recorded
HeldActionsExtended ==
  LET before == ActionsHeld(tracker)
      after  == ActionsHeld(tracker')
  IN  /\ Len(after) = Len(before) + 1
      /\ SubSeq(after, 1, Len(before)) = before
      /\ after[Len(after)] \in SequenceActions(hostClock')

SwitchHistoryIsChain ==
  LET switches == tracker.contextSwitches
  IN  /\ \A i \in 1..(Len(switches) - 1) :
           switches[i].toContext = switches[i + 1].fromContext
      /\ switches # <<>> =>
           switches[Len(switches)].toContext = tracker.currentContext

\* a step that records a context switch
IsSwitchStep ==
  /\ tracker'.contextSwitches # <<>>
  /\ tracker'.contextSwitches # tracker.contextSwitches

(* C36: the context-switch history is a chain: the toContext of an entry   *)
(* is the fromContext of the next, and the toContext of the last entry is  *)
(* the current context; the fromContext of a recorded switch is the        *)
(* tracker's current context before the action, whatever "from" label the  *)
(* action declares.                                                        *)
C36_SwitchHistoryChain ==
  /\ []SwitchHistoryIsChain
  /\ [][IsSwitchStep =>
          LET newest == tracker'.contextSwitches[Len(tracker'.contextSwitches)]
          IN  /\ newest.fromContext = tracker.currentContext
              /\ newest.toContext = tracker'.currentContext
              /\ newest.timestamp = hostClock']_vars

\* two switches are stored; the second was recorded for a context_switch
\* action declaring from "a.ts" while the current context was another one
C36_Witness ==
  /\ Len(tracker.contextSwitches) = 2
  /\ tracker.contextSwitches[2].toContext = "b.ts"
  /\ tracker.contextSwitches[2].fromContext \notin {"a.ts", "b.ts"}
  /\ tracker.contextSwitches[1].toContext = tracker.contextSwitches[2].fromContext
  /\ tracker.currentContext = "b.ts"


\* a segment is open exactly when a context is established, it carries the
\* current context, and the closed segments and the open one abut
FocusSegmentsFollowContext ==
  LET closed == tracker.focusSegments
      open   == tracker.currentFocusSegment
  IN  /\ (open # Null) <=> (tracker.currentContext # "")
      /\ open # Null => open.context = tracker.currentContext
      /\ closed # <<>> => open # Null /\ closed[Len(closed)].endTime = open.startTime
      /\ \A i \in 1..(Len(closed) - 1) : closed[i].endTime = closed[i + 1].startTime
      /\ \A i \in 1..Len(closed) :
           closed[i].duration = closed[i].endTime - closed[i].startTime

\* the step closes the open segment at the timestamp of the switch it
\* records and opens the next one there
SwitchClosesOneSegment ==
  LET newest == tracker'.contextSwitches[Len(tracker'.contextSwitches)]
      closed == tracker'.focusSegments
  IN  /\ Len(closed) = Len(tracker.focusSegments) + 1
      /\ SubSeq(closed, 1, Len(tracker.focusSegments)) = tracker.focusSegments
      /\ closed[Len(closed)].context = newest.fromContext
      /\ closed[Len(closed)].startTime = tracker.currentFocusSegment.startTime
      /\ closed[Len(closed)].endTime = newest.timestamp
      /\ tracker'.currentFocusSegment # Null
      /\ tracker'.currentFocusSegment.startTime = newest.timestamp
      /\ tracker'.currentFocusSegment.context = newest.toContext

EntriesCarryCallSession ==
  Len(engine.metricsHistory) = Len(callLog) =>
    \A i \in 1..Len(callLog) :
      engine.metricsHistory[i].sessionId = callLog[i].sessionId

\* entries with the same session id are contiguous and those of the
\* current session are the last ones
SessionsContiguous ==
  LET history == engine.metricsHistory
      current == engine.patternStorage.currentSession
  IN  /\ \A i, j, k \in 1..Len(history) :
           (i < j /\ j < k /\ history[i].sessionId = history[k].sessionId)
             => history[j].sessionId = history[i].sessionId
      /\ \A i, j \in 1..Len(history) :
           (i < j /\ history[i].sessionId = current) => history[j].sessionId = current

\* a call that finds the session timed out leaves no entry of the new session
IsRolloverStep ==
  /\ engineCalls' = engineCalls + 1
  /\ getSessionDuration(engine, wallClock) > sessionTimeoutMs

(* C38: every entry appended by calculateMetrics carries the session id    *)
(* that was current when the call began, also when the call triggers the   *)
(* rollover; right after such a call metricsCount is 0; entries with the   *)
(* same session id are contiguous in the history and those of the current  *)
(* session form its suffix.                                                *)
C38_RolloverOrdering ==
  /\ []EntriesCarryCallSession
  /\ []SessionsContiguous
  /\ [][IsRolloverStep =>
          /\ metricsCount(engine') = 0
          /\ engine'.patternStorage.currentSession
               # engine'.metricsHistory[Len(engine'.metricsHistory)].sessionId]_vars


IsKeystrokeOrEditStep ==
  /\ recorded' # recorded
  /\ NewestAction(tracker').type \in {"keystroke", "code_edit"}

====
